---- MODULE Spec2Model ----
(***************************************************************************)
(* A model of the BusTub storage core: the LRU-K replacer, the buffer pool *)
(* manager, the page guards, the extendible-hash pages and the disk        *)
(* extendible hash table.                                                  *)
(* Every operator is translated from the C++ source it names in            *)
(* MODEL_MAP.json.  Sequences model std::list (index 1 is the front);      *)
(* arrays are functions from the slot index, starting at 0.                *)
(***************************************************************************)
EXTENDS Integers, Sequences, FiniteSets, TLC

VARIABLES
    \* ---- buffer pool manager (buffer_pool_manager.cpp) ----
    pages_,          \* Page pages_[pool_size_]: page_id_, pin_count_, is_dirty_, data_
    page_table_,     \* std::unordered_map<page_id_t, frame_id_t>
    free_list_,      \* std::list<frame_id_t>
    next_page_id_,   \* std::atomic<page_id_t>
    replacer_,       \* LRUKReplacer (node_store_, hist_list_, cache_list_, curr_size_, k_, latch_)
    latch_,          \* std::mutex latch_ of the pool: TRUE while locked
    disk,            \* the block device: page id -> bytes
    status,          \* "run", "hang" (blocked forever on a lock) or "abort"
    op,              \* the last call that returned, and what it returned
    \* ---- observers of a run ----
    watch,           \* what is recorded: "calls" (op), "bytes" (owed, undeclared),
                     \* "table" (ref, ht_op) or "none"
    owed,            \* page id -> the bytes the page may show (DataVals: nothing is owed)
    undeclared,      \* page id -> the page was written and not yet unpinned dirty
    \* ---- threads calling the pool concurrently ----
    pc,              \* thread -> where it is in its call ("idle" between calls)
    loc,             \* thread -> the call's name, page_id and frame_id
    holder,          \* the thread that locked latch_ (0: nobody)
    calls,           \* thread -> calls it may still start
    \* ---- extendible hash table (disk_extendible_hash_table.cpp) ----
    header_page,          \* ExtendibleHTableHeaderPage: max_depth_, directory_page_ids_
    directory_pages,      \* page id -> ExtendibleHTableDirectoryPage
    bucket_pages,         \* page id -> ExtendibleHTableBucketPage: size_, max_size_, array_
    table_next_page_id,   \* the next page id the pool gives the table
    directory_max_depth_, \* constructor argument
    ref,                  \* key -> {} or the value a correct table holds
    ht_op,                \* the last table call and what it returned
    \* ---- an LRUKReplacer called on its own (lru_k_replacer.cpp) ----
    lruk,            \* the replacer
    lruk_op,         \* the last replacer call that returned, and what it returned
    recency,         \* the tracked frames, the most recently accessed first
    \* ---- page guards (page_guard.cpp) ----
    guards,          \* guard object -> kind, bpm_, page_, is_dirty_
    guard_pins,      \* page -> pin_count_ of the page in the pool
    guard_latch,     \* page -> readers and writer holding the page's rwlatch_
    guard_op,        \* the last guard operation and the pool / latch calls it made
    \* ---- a directory page called on its own (extendible_htable_directory_page.cpp) ----
    dir,             \* the ExtendibleHTableDirectoryPage
    dir_op,          \* the last call on it
    \* ---- a bucket page called on its own (extendible_htable_bucket_page.cpp) ----
    bucket_page,     \* the ExtendibleHTableBucketPage
    bucket_page_op,  \* the last call on it and what it returned
    \* ---- the disk scheduler (disk_scheduler.cpp) ----
    request_queue_,  \* Channel<std::optional<DiskRequest>>: requests by number, nullopt
    background_thread_, \* the worker: where it is, the request it forked a thread for,
                     \* and where that thread is in ProcessDiskRequest
    requests,        \* the requests in the order Schedule was called
    device,          \* page id -> bytes on the device of disk_manager_
    destructor,      \* where ~DiskScheduler is ("none": not called)
    \* ---- threads calling the hash table concurrently ----
    page_latch,      \* page id -> the thread holding the page's write latch (0: nobody)
    table_pc,        \* thread -> where it is in Insert / Remove ("idle" between calls)
    table_loc,       \* thread -> the call's name, key and local variables
    table_calls      \* thread -> calls it may still start

bpm_vars == <<pages_, page_table_, free_list_, next_page_id_, replacer_, latch_, disk>>
obs_vars == <<owed, undeclared>>
thread_vars == <<pc, loc, holder, calls>>
ht_vars == <<header_page, directory_pages, bucket_pages, table_next_page_id,
             directory_max_depth_, ref, ht_op>>
rep_vars == <<lruk, lruk_op, recency>>
guard_vars == <<guards, guard_pins, guard_latch, guard_op>>
dir_vars == <<dir, dir_op>>
bucket_vars == <<bucket_page, bucket_page_op>>
sched_vars == <<request_queue_, background_thread_, requests, device, destructor>>
latch_vars == <<page_latch, table_pc, table_loc, table_calls>>
more_vars == <<dir_vars, bucket_vars, sched_vars, latch_vars>>
ext_vars == <<rep_vars, guard_vars, more_vars>>
seq_vars == <<status, op, watch, owed, undeclared, ht_vars, ext_vars>>
vars == <<pages_, page_table_, free_list_, next_page_id_, replacer_, latch_, disk,
          status, op, watch, owed, undeclared, pc, loc, holder, calls,
          header_page, directory_pages, bucket_pages, table_next_page_id,
          directory_max_depth_, ref, ht_op, lruk, lruk_op, recency,
          guards, guard_pins, guard_latch, guard_op, dir, dir_op,
          bucket_page, bucket_page_op,
          request_queue_, background_thread_, requests, device, destructor,
          page_latch, table_pc, table_loc, table_calls>>

(***************************************************************************)
(* Bounds of the model                                                     *)
(***************************************************************************)
PoolSize == 2        \* pool_size_: number of frames
MaxPages == 3        \* page ids 0 .. MaxPages-1 may be allocated
MaxPin == 2          \* a page is fetched while its pin count is below this
MaxK == 2            \* replacer_k ranges over 1 .. MaxK
MaxAccess == 2       \* a resident page is re-fetched while its access count is below this
MaxData == 1         \* bytes a caller writes range over 1 .. MaxData (0 = zeroed memory)
NumThreads == 2      \* threads of the concurrent pool
MaxCalls == 2        \* calls each thread starts in the concurrent pool
MaxKey == 3          \* the table's keys range over 0 .. MaxKey
MaxValue == 2        \* the table's values range over 1 .. MaxValue
HeaderMaxDepth == 1  \* header_max_depth_
MaxDirectoryDepth == 1   \* directory_max_depth_ ranges over 0 .. MaxDirectoryDepth
DirectoryArrayDepth == 2 \* HTABLE_DIRECTORY_MAX_DEPTH: the directory arrays have 2 ^ this many slots
DeepDirectoryDepth == 2  \* directory_max_depth_ ranges over 0 .. this in the table whose splits cascade
BucketMaxSize == 2   \* bucket_max_size_
MaxRequests == 3       \* Schedule is called at most this many times
MaxTablePages == 5   \* page ids the table may use
HashBits == 8        \* bits of a hash (uint32_t in the source; the top and low bits are used)
ReplacerFrames == 2  \* num_frames of the replacer called on its own
ReplacerMaxK == 3    \* its k ranges over 1 .. ReplacerMaxK
ReplacerMaxCount == 3    \* a frame is accessed while its access count is below this
MaxListSize == 2     \* a list's size member stays within -MaxListSize .. MaxListSize
ReplacerCalls == 3   \* calls each thread starts on the concurrent replacer
NumGuards == 2       \* guard objects alive at once
NumGuardPages == 2   \* pages the guards are taken on

(***************************************************************************)
(* Program constants                                                       *)
(***************************************************************************)
INVALID_PAGE_ID == -1
NoFrame == -1
nullptr == -1

Threads == 1 .. NumThreads
Frames == 0 .. (PoolSize - 1)
PageIds == 0 .. (MaxPages - 1)
DataVals == 0 .. MaxData

Max(S) == CHOOSE x \in S : \A y \in S : y <= x

PopBack(list) == SubSeq(list, 1, Len(list) - 1)
Back(list) == list[Len(list)]
EraseValue(list, x) == SelectSeq(list, LAMBDA y : y # x)
InList(list, x) == \E i \in 1 .. Len(list) : list[i] = x

(***************************************************************************)
(* Extendible hash table.  The table's pages are held by page id; the      *)
(* buffer pool under the table is large enough that no fetch fails, so a   *)
(* page guard always delivers the page it names.  A bucket's array_ has    *)
(* more slots than max_size_ (it fills the rest of the page); a slot keeps *)
(* the bytes last written to it, zero on a new page (Page::ResetMemory).   *)
(***************************************************************************)
Keys == 0 .. MaxKey
Values == 1 .. MaxValue
DirectorySlots == 0 .. (2 ^ DirectoryArrayDepth - 1)
BucketSlots == 0 .. (BucketMaxSize + 1)
ZeroEntry == [first |-> 0, second |-> 0]

\* IntComparator::operator()
cmp(lhs, rhs) == IF lhs < rhs THEN -1 ELSE IF lhs > rhs THEN 1 ELSE 0

\* DiskExtendibleHashTable::Hash: hash_fn_ is a constructor argument; this
\* one gives the largest key an odd hash and the other keys even hashes
\* that differ in the higher bits.
Hash(key) == (IF key = MaxKey THEN 1 ELSE 2 * key) % (2 ^ HashBits)

\* idx ^ (1 << n)
FlipBit(idx, n) == IF (idx \div (2 ^ n)) % 2 = 1 THEN idx - 2 ^ n ELSE idx + 2 ^ n

\* ---- ExtendibleHTableHeaderPage ----
HeaderPage_Init(max_depth) ==
    [max_depth_ |-> max_depth,
     directory_page_ids_ |-> [i \in 0 .. (2 ^ max_depth - 1) |-> INVALID_PAGE_ID]]

HashToDirectoryIndex(h, hash) == hash \div (2 ^ (HashBits - h.max_depth_))

\* ---- ExtendibleHTableDirectoryPage ----
\* Mutant of DirectoryPage_Init: the page allows one more level.
DirectoryPage_Init_Deeper(max_depth) ==
    [max_depth_ |-> max_depth + 1,
     global_depth_ |-> 0,
     bucket_page_ids_ |-> [i \in DirectorySlots |-> INVALID_PAGE_ID],
     local_depths_ |-> [i \in DirectorySlots |-> 0]]

DirectoryPage_Init(max_depth) ==
    [max_depth_ |-> max_depth,
     global_depth_ |-> 0,
     bucket_page_ids_ |-> [i \in DirectorySlots |-> INVALID_PAGE_ID],
     local_depths_ |-> [i \in DirectorySlots |-> 0]]

HashToBucketIndex(d, hash) == hash % (2 ^ d.global_depth_)

GetBucketPageId(d, bucket_idx) == d.bucket_page_ids_[bucket_idx]

SetBucketPageId(d, bucket_idx, bucket_page_id) ==
    [d EXCEPT !.bucket_page_ids_[bucket_idx] = bucket_page_id]

GetSplitImageIndex(d, bucket_idx) == FlipBit(bucket_idx, d.local_depths_[bucket_idx] - 1)

GetGlobalDepth(d) == d.global_depth_

\* Mutant of IncrGlobalDepth: the depth grows and no entry is copied.
IncrGlobalDepth_NoCopy(d) ==
    IF d.global_depth_ > d.max_depth_ THEN d ELSE [d EXCEPT !.global_depth_ = d.global_depth_ + 1]

\* The loop writes slots 2^global_depth_ .. 2^(global_depth_+1) - 1; a slot
\* outside the arrays is not written here (GrowsPastArrays tells that case).
IncrGlobalDepth(d) ==
    IF d.global_depth_ > d.max_depth_
    THEN d
    ELSE LET half == 2 ^ d.global_depth_
             Grown(arr) == [i \in DOMAIN arr |->
                               IF i >= half /\ i < 2 * half THEN arr[i - half] ELSE arr[i]]
         IN  [d EXCEPT !.bucket_page_ids_ = Grown(d.bucket_page_ids_),
                       !.local_depths_ = Grown(d.local_depths_),
                       !.global_depth_ = d.global_depth_ + 1]

DecrGlobalDepth(d) ==
    IF d.global_depth_ <= 0 THEN d ELSE [d EXCEPT !.global_depth_ = d.global_depth_ - 1]

DirectoryPage_Size(d) == 2 ^ d.global_depth_

CanShrink(d) ==
    \A i \in 0 .. (DirectoryPage_Size(d) - 1) : d.local_depths_[i] < d.global_depth_

GetLocalDepth(d, bucket_idx) == d.local_depths_[bucket_idx]

SetLocalDepth(d, bucket_idx, local_depth) ==
    [d EXCEPT !.local_depths_[bucket_idx] = local_depth]

IncrLocalDepth(d, bucket_idx) ==
    IF d.local_depths_[bucket_idx] >= d.max_depth_
    THEN d
    ELSE [d EXCEPT !.local_depths_[bucket_idx] = @ + 1]

DecrLocalDepth(d, bucket_idx) ==
    IF d.local_depths_[bucket_idx] <= 0
    THEN d
    ELSE [d EXCEPT !.local_depths_[bucket_idx] = @ - 1]

\* IncrGlobalDepth's loop runs and stores past the end of bucket_page_ids_
\* and local_depths_ (HTABLE_DIRECTORY_ARRAY_SIZE slots each).
GrowsPastArrays(d) ==
    /\ d.global_depth_ <= d.max_depth_
    /\ 2 ^ (d.global_depth_ + 1) > Cardinality(DOMAIN d.bucket_page_ids_)

\* ---- ExtendibleHTableBucketPage ----
\* Init sets max_size_ and size_ on the page's memory as it is.
BucketPage_Init(memory, max_size) ==
    [size_ |-> 0, max_size_ |-> max_size, array_ |-> memory]

NewPageMemory == [i \in BucketSlots |-> ZeroEntry]

KeyAt(b, bucket_idx) == b.array_[bucket_idx].first

ValueAt(b, bucket_idx) == b.array_[bucket_idx].second

\* Mutant of IsFull: a bucket never reports that it is full.
IsFull_Never(b) == FALSE

IsFull(b) == b.size_ >= b.max_size_

IsEmpty(b) == b.size_ = 0

RECURSIVE BinarySearch(_, _, _, _)
BinarySearch(b, key, left, right) ==
    IF left > right
    THEN left
    ELSE LET mid == (left + right) \div 2
             ret == cmp(key, b.array_[mid].first)
         IN  IF ret = 1 THEN BinarySearch(b, key, mid + 1, right)
             ELSE IF ret = -1 THEN BinarySearch(b, key, left, mid - 1)
             ELSE mid

\* Mutant of KeyIndex: every key is told to go to slot 0.
KeyIndex_Zero(b, key) == 0

KeyIndex(b, key) == BinarySearch(b, key, 0, b.size_ - 1)

\* Lookup: the slot KeyIndex names is read while bucket_idx <= Size().
BucketPage_Lookup(b, key) ==
    IF b.size_ = 0
    THEN [found |-> FALSE, value |-> 0]
    ELSE LET bucket_idx == KeyIndex(b, key)
         IN  IF bucket_idx > b.size_
             THEN [found |-> FALSE, value |-> 0]
             ELSE IF cmp(key, KeyAt(b, bucket_idx)) = 0
                  THEN [found |-> TRUE, value |-> ValueAt(b, bucket_idx)]
                  ELSE [found |-> FALSE, value |-> 0]

InsertAt(b, bucket_idx, key, value) ==
    [b EXCEPT !.array_ = [i \in DOMAIN b.array_ |->
                             IF i = bucket_idx THEN [first |-> key, second |-> value]
                             ELSE IF i > bucket_idx /\ i <= b.size_ THEN b.array_[i - 1]
                             ELSE b.array_[i]],
              !.size_ = b.size_ + 1]

\* RemoveAt: failed is the assert(bucket_idx < Size()); b is what the code
\* after the assert leaves.
RemoveAt(b, bucket_idx) ==
    [failed |-> ~(bucket_idx < b.size_),
     b |-> [b EXCEPT !.array_ = [i \in DOMAIN b.array_ |->
                                    IF i >= bucket_idx /\ i < b.size_ - 1 THEN b.array_[i + 1]
                                    ELSE b.array_[i]],
                     !.size_ = b.size_ - 1]]

BucketPage_Insert(b, key, value) ==
    IF IsFull(b)
    THEN [ok |-> FALSE, b |-> b]
    ELSE IF b.size_ = 0
    THEN [ok |-> TRUE, b |-> InsertAt(b, 0, key, value)]
    ELSE LET bucket_idx == KeyIndex(b, key)
         IN  IF cmp(key, KeyAt(b, bucket_idx)) = 0
             THEN [ok |-> FALSE, b |-> b]
             ELSE [ok |-> TRUE, b |-> InsertAt(b, bucket_idx, key, value)]

BucketPage_Remove(b, key) ==
    IF b.size_ = 0
    THEN [ok |-> FALSE, failed |-> FALSE, b |-> b]
    ELSE LET bucket_idx == KeyIndex(b, key)
         IN  IF cmp(key, KeyAt(b, bucket_idx)) # 0
             THEN [ok |-> FALSE, failed |-> FALSE, b |-> b]
             ELSE [ok |-> TRUE, failed |-> RemoveAt(b, bucket_idx).failed,
                   b |-> RemoveAt(b, bucket_idx).b]

\* ---- DiskExtendibleHashTable ----
\* A table value t: the header page, the directory and bucket pages by page
\* id, the next page id of the pool, and directory_max_depth_.
NewTable(directory_max_depth) ==
    [header |-> HeaderPage_Init(HeaderMaxDepth),
     directory_pages |-> << >>,
     bucket_pages |-> << >>,
     next_page_id |-> 1,
     directory_max_depth_ |-> directory_max_depth]

\* FindBucketPageID: header -> directory -> bucket page id, INVALID_PAGE_ID
\* where a level is missing.
FindBucketPageID(t, key) ==
    LET directory_page_id ==
            t.header.directory_page_ids_[HashToDirectoryIndex(t.header, Hash(key))]
    IN  IF directory_page_id = INVALID_PAGE_ID
        THEN INVALID_PAGE_ID
        ELSE LET directory == t.directory_pages[directory_page_id]
             IN  GetBucketPageId(directory, HashToBucketIndex(directory, Hash(key)))

\* GetValue: the values pushed to *result ({} when it returns false).
GetValue(t, key) ==
    LET bucket_page_id == FindBucketPageID(t, key)
    IN  IF bucket_page_id = INVALID_PAGE_ID
        THEN {}
        ELSE LET found == BucketPage_Lookup(t.bucket_pages[bucket_page_id], key)
             IN  IF found.found THEN {found.value} ELSE {}

\* The entries of bucket b that do not hash to pattern under the mask leave
\* b (RemoveAt) in slot order.
RECURSIVE RemoveMoved(_, _, _, _)
RemoveMoved(b, i, mask, pattern) ==
    IF i >= b.size_
    THEN b
    ELSE IF Hash(KeyAt(b, i)) % mask = pattern
    THEN RemoveMoved(b, i + 1, mask, pattern)
    ELSE RemoveMoved(RemoveAt(b, i).b, i, mask, pattern)

RECURSIVE InsertMoved(_, _, _, _, _)
InsertMoved(image, b, i, mask, pattern) ==
    IF i >= b.size_
    THEN image
    ELSE IF Hash(KeyAt(b, i)) % mask = pattern
    THEN InsertMoved(image, b, i + 1, mask, pattern)
    ELSE InsertMoved(BucketPage_Insert(image, KeyAt(b, i), ValueAt(b, i)).b, b, i + 1,
                     mask, pattern)

\* SplitBucket: a new bucket page takes the entries whose hash, masked to
\* the new local depth, differs from bucket_idx; the directory slots of the
\* old bucket are divided between the two and get the new local depth.
SplitBucket(t, directory_page_id, bucket_page_id, bucket_idx) ==
    LET directory == t.directory_pages[directory_page_id]
        bucket == t.bucket_pages[bucket_page_id]
        local_depth == GetLocalDepth(directory, bucket_idx)
        mask == 2 ^ local_depth
        pattern == bucket_idx % mask
        image_page_id == t.next_page_id
        image == InsertMoved(BucketPage_Init(NewPageMemory, bucket.max_size_), bucket, 0,
                             mask, pattern)
        Aliases(i) == i < DirectoryPage_Size(directory)
                      /\ directory.bucket_page_ids_[i] = bucket_page_id
    IN  [t EXCEPT
            !.next_page_id = t.next_page_id + 1,
            !.bucket_pages = (image_page_id :> image)
                             @@ [t.bucket_pages EXCEPT ![bucket_page_id] =
                                    RemoveMoved(bucket, 0, mask, pattern)],
            !.directory_pages[directory_page_id] =
                [directory EXCEPT
                    !.bucket_page_ids_ = [i \in DOMAIN directory.bucket_page_ids_ |->
                        IF Aliases(i) /\ i % mask # pattern THEN image_page_id
                        ELSE directory.bucket_page_ids_[i]],
                    !.local_depths_ = [i \in DOMAIN directory.local_depths_ |->
                        IF Aliases(i) THEN local_depth ELSE directory.local_depths_[i]]]]

\* Insert, line 613: the directory cannot grow.
AtMaxDepth(d) == GetGlobalDepth(d) >= d.max_depth_

\* DiskExtendibleHashTable::Insert.  directory_guard.Drop() (line 602)
\* unpins the directory before lines 611-621 use it; with one thread and a
\* pool that never evicts, the page stays in its frame.  depths: the local
\* depth of the key's slot in each round (the call and each retry, line 626).
RECURSIVE HashTable_Insert(_, _, _)
HashTable_Insert(t, key, value) ==
    LET hash == Hash(key)
        directory_idx == HashToDirectoryIndex(t.header, hash)
        t1 == IF t.header.directory_page_ids_[directory_idx] = INVALID_PAGE_ID
              THEN [t EXCEPT
                      !.header.directory_page_ids_[directory_idx] = t.next_page_id,
                      !.directory_pages = (t.next_page_id :>
                                              DirectoryPage_Init(t.directory_max_depth_))
                                          @@ t.directory_pages,
                      !.next_page_id = t.next_page_id + 1]
              ELSE t
        directory_page_id == t1.header.directory_page_ids_[directory_idx]
        bucket_idx == HashToBucketIndex(t1.directory_pages[directory_page_id], hash)
        t2 == IF GetBucketPageId(t1.directory_pages[directory_page_id], bucket_idx)
                    = INVALID_PAGE_ID
              THEN [t1 EXCEPT
                      !.bucket_pages = (t1.next_page_id :>
                                           BucketPage_Init(NewPageMemory, BucketMaxSize))
                                       @@ t1.bucket_pages,
                      !.directory_pages[directory_page_id] =
                          SetLocalDepth(SetBucketPageId(@, bucket_idx, t1.next_page_id),
                                        bucket_idx, 0),
                      !.next_page_id = t1.next_page_id + 1]
              ELSE t1
        directory == t2.directory_pages[directory_page_id]
        bucket_page_id == GetBucketPageId(directory, bucket_idx)
        bucket == t2.bucket_pages[bucket_page_id]
        depth == <<GetLocalDepth(directory, bucket_idx)>>
    IN  IF BucketPage_Lookup(bucket, key).found
        THEN [ok |-> FALSE, t |-> t2, depths |-> depth]
        ELSE IF IsFull(bucket)
        THEN IF GetLocalDepth(directory, bucket_idx) = GetGlobalDepth(directory)
                /\ AtMaxDepth(directory)
             THEN [ok |-> FALSE, t |-> t2, depths |-> depth]
             ELSE LET grown == IF GetLocalDepth(directory, bucket_idx)
                                     = GetGlobalDepth(directory)
                               THEN IncrGlobalDepth(directory)
                               ELSE directory
                      t3 == [t2 EXCEPT !.directory_pages[directory_page_id] =
                                          IncrLocalDepth(grown, bucket_idx)]
                  IN  [HashTable_Insert(
                           SplitBucket(t3, directory_page_id, bucket_page_id, bucket_idx),
                           key, value)
                       EXCEPT !.depths = depth \o @]
        ELSE LET inserted == BucketPage_Insert(bucket, key, value)
             IN  [ok |-> inserted.ok,
                  t |-> [t2 EXCEPT !.bucket_pages[bucket_page_id] = inserted.b],
                  depths |-> depth]

\* TryMergeBucket: while the bucket and its split image have the same local
\* depth > 0 and one of them is empty, the empty one's page is deleted, its
\* slots go to the other and the local depth of all their slots drops by 1.
RECURSIVE TryMergeBucket(_, _, _)
TryMergeBucket(t, directory_page_id, bucket_idx) ==
    LET directory == t.directory_pages[directory_page_id]
        local_depth == GetLocalDepth(directory, bucket_idx)
    IN  IF local_depth = 0
        THEN t
        ELSE LET image_idx == GetSplitImageIndex(directory, bucket_idx)
                 bucket_page_id == GetBucketPageId(directory, bucket_idx)
                 image_page_id == GetBucketPageId(directory, image_idx)
             IN  IF \/ GetLocalDepth(directory, image_idx) # local_depth
                    \/ image_page_id = bucket_page_id
                    \/ ~(IsEmpty(t.bucket_pages[bucket_page_id])
                         \/ IsEmpty(t.bucket_pages[image_page_id]))
                 THEN t
                 ELSE LET gone == IF IsEmpty(t.bucket_pages[bucket_page_id])
                                  THEN bucket_page_id ELSE image_page_id
                          kept == IF gone = bucket_page_id
                                  THEN image_page_id ELSE bucket_page_id
                          Merged(i) == i < DirectoryPage_Size(directory)
                                       /\ directory.bucket_page_ids_[i]
                                              \in {bucket_page_id, image_page_id}
                          merged == [directory EXCEPT
                              !.bucket_page_ids_ = [i \in DOMAIN directory.bucket_page_ids_ |->
                                  IF Merged(i) THEN kept ELSE directory.bucket_page_ids_[i]],
                              !.local_depths_ = [i \in DOMAIN directory.local_depths_ |->
                                  IF Merged(i) THEN local_depth - 1
                                  ELSE directory.local_depths_[i]]]
                      IN  TryMergeBucket(
                              [t EXCEPT
                                  !.directory_pages[directory_page_id] = merged,
                                  !.bucket_pages = [p \in DOMAIN t.bucket_pages \ {gone} |->
                                                       t.bucket_pages[p]]],
                              directory_page_id, bucket_idx)

\* while (directory->CanShrink()) directory->DecrGlobalDepth();
RECURSIVE Shrink(_)
Shrink(d) == IF CanShrink(d) THEN Shrink(DecrGlobalDepth(d)) ELSE d

\* DiskExtendibleHashTable::Remove.  failed: the assert of RemoveAt does
\* not hold; t is what a build without asserts leaves.
HashTable_Remove(t, key) ==
    LET hash == Hash(key)
        directory_page_id ==
            t.header.directory_page_ids_[HashToDirectoryIndex(t.header, hash)]
    IN  IF directory_page_id = INVALID_PAGE_ID
        THEN [ok |-> FALSE, failed |-> FALSE, t |-> t]
        ELSE LET directory == t.directory_pages[directory_page_id]
                 bucket_idx == HashToBucketIndex(directory, hash)
                 bucket_page_id == GetBucketPageId(directory, bucket_idx)
             IN  IF bucket_page_id = INVALID_PAGE_ID
                 THEN [ok |-> FALSE, failed |-> FALSE, t |-> t]
                 ELSE LET removed == BucketPage_Remove(t.bucket_pages[bucket_page_id], key)
                          t1 == TryMergeBucket(
                                    [t EXCEPT !.bucket_pages[bucket_page_id] = removed.b],
                                    directory_page_id, bucket_idx)
                      IN  IF ~removed.ok
                          THEN [ok |-> FALSE, failed |-> FALSE, t |-> t]
                          ELSE [ok |-> TRUE, failed |-> removed.failed,
                                t |-> [t1 EXCEPT !.directory_pages[directory_page_id] =
                                                    Shrink(@)]]

(***************************************************************************)
(* The hash table called by one thread.  ref is the reference map: the     *)
(* value of the last Insert that returned true, {} after a Remove that     *)
(* returned true.  ht_op is the last call and what it returned.            *)
(***************************************************************************)
Table ==
    [header |-> header_page, directory_pages |-> directory_pages,
     bucket_pages |-> bucket_pages, next_page_id |-> table_next_page_id,
     directory_max_depth_ |-> directory_max_depth_]

SetTable(t) ==
    /\ header_page' = t.header
    /\ directory_pages' = t.directory_pages
    /\ bucket_pages' = t.bucket_pages
    /\ table_next_page_id' = t.next_page_id
    /\ directory_max_depth_' = t.directory_max_depth_

TableCall(name, key, ret) == [name |-> name, key |-> key, ret |-> ret]

InitTable(directory_max_depth) ==
    /\ header_page = NewTable(directory_max_depth).header
    /\ directory_pages = NewTable(directory_max_depth).directory_pages
    /\ bucket_pages = NewTable(directory_max_depth).bucket_pages
    /\ table_next_page_id = NewTable(directory_max_depth).next_page_id
    /\ directory_max_depth_ = directory_max_depth
    /\ ref = [key \in Keys |-> {}]
    /\ ht_op = TableCall("None", 0, FALSE)

\* The table as constructed, for the runs that make no table call.
NoTableCalls == InitTable(0)

(***************************************************************************)
(* LRUKReplacer (lru_k_replacer.cpp).  A replacer value r is a record; an  *)
(* operation returns an outcome: the replacer afterwards, the exception it *)
(* threw ("none" if it returned), whether it ran into undefined behaviour, *)
(* and for Evict whether a victim was found and which.                     *)
(***************************************************************************)
NoNode == [k |-> 0, is_evictable |-> FALSE, tracked |-> FALSE]

Outcome(r, exc, ub, found, frame_id) ==
    [r |-> r, exc |-> exc, ub |-> ub, found |-> found, frame_id |-> frame_id]

\* LRUKReplacer::LRUKReplacer: empty lists, no nodes, curr_size_ 0.  sized
\* tells the build: TRUE where std::list::empty() reads the list's size member
\* (libc++), FALSE where it reads the links (libstdc++).  hist_size and
\* cache_size are the size members; they are kept only where empty() reads them.
NewReplacer(num_frames, k) ==
    [node_store |-> [f \in 0 .. num_frames |-> NoNode],
     hist_list |-> <<>>, cache_list |-> <<>>, curr_size |-> 0,
     k |-> k, replacer_size |-> num_frames, latch |-> FALSE,
     sized |-> FALSE, hist_size |-> 0, cache_size |-> 0]

\* The same replacer in the build whose empty() reads the size member.
SizedReplacer(num_frames, k) == [NewReplacer(num_frames, k) EXCEPT !.sized = TRUE]

\* hist_list_.empty(), cache_list_.empty()
HistEmpty(r) == IF r.sized THEN r.hist_size = 0 ELSE r.hist_list = <<>>

CacheEmpty(r) == IF r.sized THEN r.cache_size = 0 ELSE r.cache_list = <<>>

\* hist_list_.emplace_front(frame_id), cache_list_.emplace_front(frame_id)
HistEmplaceFront(r, frame_id) ==
    [r EXCEPT !.hist_list = <<frame_id>> \o @,
              !.hist_size = IF r.sized THEN @ + 1 ELSE @]

CacheEmplaceFront(r, frame_id) ==
    [r EXCEPT !.cache_list = <<frame_id>> \o @,
              !.cache_size = IF r.sized THEN @ + 1 ELSE @]

\* hist_list_.erase(pos_), cache_list_.erase(pos_): the node pos_ points at is
\* unhooked from its neighbours, in whichever list they are, and the size of
\* the list erase was called on goes down by one (size_t: below 0 it wraps to
\* a large number, written here as a negative one).
HistErase(r, frame_id) ==
    [r EXCEPT !.hist_list = EraseValue(@, frame_id),
              !.cache_list = EraseValue(@, frame_id),
              !.hist_size = IF r.sized THEN @ - 1 ELSE @]

CacheErase(r, frame_id) ==
    [r EXCEPT !.hist_list = EraseValue(@, frame_id),
              !.cache_list = EraseValue(@, frame_id),
              !.cache_size = IF r.sized THEN @ - 1 ELSE @]

\* Mutant of LastEvictable: the reverse scan does not look at is_evictable_.
LastEvictable_AnyEntry(r, list) ==
    IF list = <<>> THEN NoFrame ELSE list[Len(list)]

\* The rightmost evictable entry of a list (the reverse scan of Evict).
LastEvictable(r, list) ==
    LET idx == {i \in 1 .. Len(list) : r.node_store[list[i]].is_evictable}
    IN  IF idx = {} THEN NoFrame ELSE list[Max(idx)]

\* LRUKReplacer::Evict, lines 351-382: under latch_, the history list is
\* scanned from the back if it is not empty, then the cache list; the victim
\* is erased from its list.
EvictVictim(r, h, c) ==
    IF h # NoFrame THEN [r |-> HistErase(r, h), victim |-> h]
    ELSE IF c # NoFrame THEN [r |-> CacheErase(r, c), victim |-> c]
    ELSE [r |-> r, victim |-> NoFrame]

EvictFromLists(r) ==
    EvictVictim(r, IF HistEmpty(r) THEN NoFrame ELSE LastEvictable(r, r.hist_list),
                   IF CacheEmpty(r) THEN NoFrame ELSE LastEvictable(r, r.cache_list))

\* LRUKReplacer::Evict, line 386: node_store_.erase(*frame_id) after latch_ is
\* released.
EvictEraseNode(r, frame_id) == [r EXCEPT !.node_store[frame_id] = NoNode]

\* Mutant of EvictDecrSize: curr_size_ is not decremented.
EvictDecrSize_Keep(r) == r

\* LRUKReplacer::Evict, line 387: --curr_size_ after latch_ is released.
EvictDecrSize(r) == [r EXCEPT !.curr_size = @ - 1]

\* LRUKReplacer::Evict, lines 385-391: the return with or without a victim.
EvictReturn(r, e) ==
    IF e.victim = NoFrame
    THEN Outcome(r, "none", FALSE, FALSE, NoFrame)
    ELSE Outcome(EvictDecrSize(EvictEraseNode(e.r, e.victim)), "none", FALSE, TRUE, e.victim)

\* LRUKReplacer::Evict, called with no other call in progress.
Evict(r) ==
    IF r.latch THEN Outcome(r, "blocked", FALSE, FALSE, NoFrame)
    ELSE EvictReturn(r, EvictFromLists(r))

\* LRUKReplacer::RecordAccess, lines 405-419: the frame, now with new_count
\* accesses, is put in its list; r is the replacer before that.
RecordAccessCounted(r, frame_id, new_count) ==
    IF new_count = 1
    THEN Outcome(HistEmplaceFront(r, frame_id), "none", FALSE, FALSE, NoFrame)
    ELSE IF new_count = r.k
    THEN Outcome(CacheEmplaceFront(HistErase(r, frame_id), frame_id),
                 "none", ~InList(r.hist_list, frame_id), FALSE, NoFrame)
    ELSE IF new_count > r.k
    THEN Outcome(CacheEmplaceFront(CacheErase(r, frame_id), frame_id),
                 "none", ~InList(r.cache_list, frame_id), FALSE, NoFrame)
    ELSE Outcome(r, "none", FALSE, FALSE, NoFrame)

\* LRUKReplacer::RecordAccess.  A throw leaves latch_ locked.  Erasing pos_
\* from the list that does not hold it (k_ = 1, second access) is undefined
\* behaviour.
RecordAccess(r, frame_id) ==
    IF r.latch THEN Outcome(r, "blocked", FALSE, FALSE, NoFrame)
    ELSE IF frame_id > r.replacer_size
    THEN Outcome([r EXCEPT !.latch = TRUE], "invalid_argument", FALSE, FALSE, NoFrame)
    ELSE RecordAccessCounted([r EXCEPT !.node_store[frame_id].k = @ + 1,
                                       !.node_store[frame_id].tracked = TRUE],
                             frame_id, r.node_store[frame_id].k + 1)

\* LRUKReplacer::SetEvictable.  The early return for an untracked frame and
\* the throw both leave latch_ locked.
SetEvictable(r, frame_id, set_evictable) ==
    IF r.latch THEN Outcome(r, "blocked", FALSE, FALSE, NoFrame)
    ELSE IF frame_id > r.replacer_size
    THEN Outcome([r EXCEPT !.latch = TRUE], "invalid_argument", FALSE, FALSE, NoFrame)
    ELSE IF ~r.node_store[frame_id].tracked
    THEN Outcome([r EXCEPT !.latch = TRUE], "none", FALSE, FALSE, NoFrame)
    ELSE LET was == r.node_store[frame_id].is_evictable
             size == IF set_evictable /\ ~was THEN r.curr_size + 1
                     ELSE IF was /\ ~set_evictable THEN r.curr_size - 1
                     ELSE r.curr_size
         IN  Outcome([r EXCEPT !.curr_size = size,
                               !.node_store[frame_id].is_evictable = set_evictable],
                     "none", FALSE, FALSE, NoFrame)

\* LRUKReplacer::Remove.  The early return for an untracked frame and the
\* throw both leave latch_ locked; the list is chosen by k_ < k.
Remove(r, frame_id) ==
    IF r.latch THEN Outcome(r, "blocked", FALSE, FALSE, NoFrame)
    ELSE IF ~r.node_store[frame_id].tracked
    THEN Outcome([r EXCEPT !.latch = TRUE], "none", FALSE, FALSE, NoFrame)
    ELSE IF ~r.node_store[frame_id].is_evictable
    THEN Outcome([r EXCEPT !.latch = TRUE], "logic_error", FALSE, FALSE, NoFrame)
    ELSE LET in_hist == r.node_store[frame_id].k < r.k
             wrong == IF in_hist THEN ~InList(r.hist_list, frame_id)
                      ELSE ~InList(r.cache_list, frame_id)
             r1 == IF in_hist THEN HistErase(r, frame_id) ELSE CacheErase(r, frame_id)
         IN  Outcome([r1 EXCEPT !.curr_size = @ - 1,
                                !.node_store[frame_id] = NoNode],
                     "none", wrong, FALSE, NoFrame)

\* LRUKReplacer::Size
Size(r) == r.curr_size

\* The frames a replacer tracks (the keys of node_store_), and those of them
\* that are evictable.
Tracked(r) == {f \in DOMAIN r.node_store : r.node_store[f].tracked}

Evictable(r) == {f \in Tracked(r) : r.node_store[f].is_evictable}

\* A call of the replacer and what it returned.
ReplacerCall(name, frame_id, set_evictable) ==
    [name |-> name, frame_id |-> frame_id, set_evictable |-> set_evictable,
     found |-> FALSE, exc |-> "none"]

InitReplacer(r) ==
    /\ lruk = r
    /\ lruk_op = ReplacerCall("None", NoFrame, FALSE)
    /\ recency = <<>>

\* The replacer as constructed, for the runs that do not call it on its own.
NoReplacerCalls == InitReplacer(NewReplacer(ReplacerFrames, 1))

(***************************************************************************)
(* Page guards (page_guard.cpp).  A guard world w holds the guard objects, *)
(* the pin count and the rwlatch_ of each page, the calls the current      *)
(* operation has made on the pool and the latches (log), and whether it    *)
(* waits for a latch it can never get (stuck).  A page pointer is the      *)
(* page's id, or nullptr.  last and from_dirty are not fields of the       *)
(* source: last names the operation that last wrote the guard's fields,    *)
(* from_dirty tells that the guard holds the page of a basic guard that    *)
(* was upgraded with is_dirty_ set.                                        *)
(***************************************************************************)
GuardIds == 1 .. NumGuards

GuardPages == 0 .. NumGuardPages - 1

NoGuard == [kind |-> "none", bpm |-> FALSE, page |-> nullptr, is_dirty |-> FALSE,
            last |-> "none", from_dirty |-> FALSE]

Event(call, page, is_dirty) == [call |-> call, page |-> page, dirty |-> is_dirty]

Logged(w, call, page, is_dirty) == [w EXCEPT !.log = Append(@, Event(call, page, is_dirty))]

\* BufferPoolManager::FetchPage as the guards see it: the page is pinned.
Pin(w, page) == Logged([w EXCEPT !.pins[page] = @ + 1], "FetchPage", page, FALSE)

\* BufferPoolManager::UnpinPage as the guards see it: false if the pin count
\* is 0, else the pin count goes down by one.
Unpin(w, page, is_dirty) ==
    Logged([w EXCEPT !.pins[page] = IF @ = 0 THEN 0 ELSE @ - 1],
           "UnpinPage", page, is_dirty)

\* Page::RLatch, Page::WLatch: taken if free, else the caller waits.
RLatch(w, page) ==
    IF w.latch[page].writer THEN [w EXCEPT !.stuck = TRUE]
    ELSE Logged([w EXCEPT !.latch[page].readers = @ + 1], "RLatch", page, FALSE)

WLatch(w, page) ==
    IF w.latch[page].writer \/ w.latch[page].readers > 0 THEN [w EXCEPT !.stuck = TRUE]
    ELSE Logged([w EXCEPT !.latch[page].writer = TRUE], "WLatch", page, FALSE)

\* Page::RUnlatch, Page::WUnlatch
RUnlatch(w, page) == Logged([w EXCEPT !.latch[page].readers = @ - 1], "RUnlatch", page, FALSE)

WUnlatch(w, page) == Logged([w EXCEPT !.latch[page].writer = FALSE], "WUnlatch", page, FALSE)

\* that.bpm_ = nullptr; that.page_ = nullptr;
ResetGuard(w, g, by) ==
    [w EXCEPT !.guards[g].bpm = FALSE, !.guards[g].page = nullptr, !.guards[g].last = by,
              !.guards[g].from_dirty = FALSE]

\* BasicPageGuard(bpm, page), ReadPageGuard(bpm, page), WritePageGuard(bpm, page)
NewGuard(kind, page, by) ==
    [kind |-> kind, bpm |-> TRUE, page |-> page, is_dirty |-> FALSE, last |-> by,
     from_dirty |-> FALSE]

\* BufferPoolManager::FetchPageBasic / FetchPageRead / FetchPageWrite into the
\* guard object g; page is what FetchPage returns (nullptr: no frame).
FetchPageBasic(w, g, page) ==
    LET w1 == IF page # nullptr THEN Pin(w, page) ELSE w
    IN  [w1 EXCEPT !.guards[g] = NewGuard("basic", page, "Fetch")]

FetchPageRead(w, g, page) ==
    LET w1 == IF page # nullptr THEN RLatch(Pin(w, page), page) ELSE w
    IN  IF w1.stuck THEN w1 ELSE [w1 EXCEPT !.guards[g] = NewGuard("read", page, "Fetch")]

FetchPageWrite(w, g, page) ==
    LET w1 == IF page # nullptr THEN WLatch(Pin(w, page), page) ELSE w
    IN  IF w1.stuck THEN w1 ELSE [w1 EXCEPT !.guards[g] = NewGuard("write", page, "Fetch")]

\* Mutant of BasicMoveConstruct: the source is not reset.
BasicMoveConstruct_Copy(w, g, h) ==
    [w EXCEPT !.guards[g] = [w.guards[h] EXCEPT !.last = "MoveTarget"]]

\* BasicPageGuard::BasicPageGuard(BasicPageGuard &&that), and through it the
\* defaulted move constructors of ReadPageGuard and WritePageGuard: object g
\* is constructed from that = object h.
BasicMoveConstruct(w, g, h) ==
    ResetGuard([w EXCEPT !.guards[g] = [w.guards[h] EXCEPT !.last = "MoveTarget"]],
               h, "MoveSource")

\* BasicPageGuard::Drop
BasicDrop(w, g) ==
    LET x == w.guards[g]
        w1 == IF x.bpm /\ x.page # nullptr THEN Unpin(w, x.page, x.is_dirty) ELSE w
    IN  ResetGuard(w1, g, "Drop")

\* BasicPageGuard::operator=(BasicPageGuard &&that)
BasicMoveAssign(w, g, h) ==
    IF g = h THEN w
    ELSE LET w1 == BasicDrop(w, g)
             that == w1.guards[h]
         IN  ResetGuard([w1 EXCEPT !.guards[g].bpm = that.bpm,
                                   !.guards[g].page = that.page,
                                   !.guards[g].is_dirty = that.is_dirty,
                                   !.guards[g].from_dirty = that.from_dirty,
                                   !.guards[g].last = "MoveTarget"],
                        h, "MoveSource")

\* Mutant of UpgradeRead: the basic guard keeps its page.
UpgradeRead_KeepSource(w, g, h) ==
    LET x == w.guards[g]
        w1 == IF x.page # nullptr THEN RLatch(w, x.page) ELSE w
    IN  IF w1.stuck THEN w1
        ELSE [w1 EXCEPT !.guards[h] = [NewGuard("read", x.page, "UpgradeResult")
                                          EXCEPT !.bpm = x.bpm, !.from_dirty = x.is_dirty]]

\* BasicPageGuard::UpgradeRead: object g is upgraded into the new object h.
UpgradeRead(w, g, h) ==
    LET x == w.guards[g]
        w1 == IF x.page # nullptr THEN RLatch(w, x.page) ELSE w
    IN  IF w1.stuck THEN w1
        ELSE ResetGuard([w1 EXCEPT !.guards[h] = [NewGuard("read", x.page, "UpgradeResult")
                                                     EXCEPT !.bpm = x.bpm, !.from_dirty = x.is_dirty]],
                        g, "UpgradeSource")

\* BasicPageGuard::UpgradeWrite
UpgradeWrite(w, g, h) ==
    LET x == w.guards[g]
        w1 == IF x.page # nullptr THEN WLatch(w, x.page) ELSE w
    IN  IF w1.stuck THEN w1
        ELSE ResetGuard([w1 EXCEPT !.guards[h] = [NewGuard("write", x.page, "UpgradeResult")
                                                     EXCEPT !.bpm = x.bpm, !.from_dirty = x.is_dirty]],
                        g, "UpgradeSource")

\* ReadPageGuard::operator=(ReadPageGuard &&that)
ReadMoveAssign(w, g, h) ==
    IF g = h THEN w
    ELSE LET x == w.guards[g]
             w1 == IF x.page # nullptr THEN RUnlatch(w, x.page) ELSE w
         IN  BasicMoveAssign(w1, g, h)

\* ReadPageGuard::Drop
ReadDrop(w, g) ==
    LET x == w.guards[g]
        w1 == IF x.page # nullptr THEN RUnlatch(w, x.page) ELSE w
    IN  BasicDrop(w1, g)

\* WritePageGuard::operator=(WritePageGuard &&that)
WriteMoveAssign(w, g, h) ==
    IF g = h THEN w
    ELSE LET x == w.guards[g]
             w1 == IF x.page # nullptr THEN WUnlatch(w, x.page) ELSE w
         IN  BasicMoveAssign(w1, g, h)

\* WritePageGuard::Drop
WriteDrop(w, g) ==
    LET x == w.guards[g]
        w1 == IF x.page # nullptr THEN WUnlatch(w, x.page) ELSE w
    IN  BasicDrop([w1 EXCEPT !.guards[g].is_dirty = TRUE], g)

\* Drop() of a guard of any kind.
GuardDrop(w, g) ==
    IF w.guards[g].kind = "read" THEN ReadDrop(w, g)
    ELSE IF w.guards[g].kind = "write" THEN WriteDrop(w, g)
    ELSE BasicDrop(w, g)

\* operator= of a guard of any kind.
GuardMoveAssign(w, g, h) ==
    IF w.guards[g].kind = "read" THEN ReadMoveAssign(w, g, h)
    ELSE IF w.guards[g].kind = "write" THEN WriteMoveAssign(w, g, h)
    ELSE BasicMoveAssign(w, g, h)

\* ~BasicPageGuard, ~ReadPageGuard, ~WritePageGuard: Drop(); for a read or
\* write guard the destructor of its member guard_ then runs Drop() again.
GuardDestroy(w, g) ==
    LET w1 == IF w.guards[g].kind = "basic" THEN BasicDrop(w, g)
              ELSE BasicDrop(GuardDrop(w, g), g)
    IN  [w1 EXCEPT !.guards[g] = NoGuard]

\* BasicPageGuard::AsMut / GetDataMut, WritePageGuard::AsMut
AsMut(w, g) == [w EXCEPT !.guards[g].is_dirty = TRUE]

\* A guard operation and the calls it made.
GuardCall(name, g, h, was, log) == [name |-> name, g |-> g, h |-> h, was |-> was, log |-> log]

InitGuards ==
    /\ guards = [g \in GuardIds |-> NoGuard]
    /\ guard_pins = [p \in GuardPages |-> 0]
    /\ guard_latch = [p \in GuardPages |-> [readers |-> 0, writer |-> FALSE]]
    /\ guard_op = GuardCall("None", 0, 0, "none", <<>>)

\* No guard is taken in the runs that are not about guards.
NoGuards == InitGuards

(***************************************************************************)
(* A directory page called on its own.                                     *)
(***************************************************************************)
\* ub: the call stored outside the page's arrays.
DirectoryCall(name, bucket_idx, ub) == [name |-> name, bucket_idx |-> bucket_idx, ub |-> ub]

InitDirectory(max_depth) ==
    /\ dir = DirectoryPage_Init(max_depth)
    /\ dir_op = DirectoryCall("Init", 0, FALSE)

NoDirectoryCalls == InitDirectory(0)

(***************************************************************************)
(* A bucket page called on its own.  The page lies on memory the pool has  *)
(* zeroed; Init called again leaves array_ as it is.  aborted: the call    *)
(* stopped the process in assert(bucket_idx < Size()).                     *)
(***************************************************************************)
BucketCall(name, key, ok, value, aborted) ==
    [name |-> name, key |-> key, ok |-> ok, value |-> value, aborted |-> aborted]

InitBucket(max_size) ==
    /\ bucket_page = BucketPage_Init(NewPageMemory, max_size)
    /\ bucket_page_op = BucketCall("Init", 0, TRUE, 0, FALSE)

NoBucketCalls == InitBucket(1)

(***************************************************************************)
(* DiskScheduler (disk_scheduler.cpp).  A request is known by its number   *)
(* in the order of the Schedule calls; a write carries bytes that tell     *)
(* which request wrote them.                                               *)
(***************************************************************************)
nullopt == 0

\* Channel::Put and Channel::Get: a queue under a mutex; Get waits while
\* the queue is empty and takes the element at the front.
Put(q, element) == Append(q, element)

Get(q) == [element |-> Head(q), q |-> Tail(q)]

\* disk_manager_->WritePage / ReadPage (lines 350-355): the device after
\* the call.
DiskIO(dev, r) == IF r.is_write_ THEN [dev EXCEPT ![r.page_id_] = r.data_] ELSE dev

\* Mutant of SetValue: the promise is fulfilled twice.
SetValue_Twice(fulfilled) == fulfilled + 2

\* r.callback_.set_value(true) (line 356): what the request's future has
\* received.
SetValue(fulfilled) == fulfilled + 1

\* Mutant of Join: the worker does not wait for the thread it forked.
Join_Detach(process) == TRUE

\* t.join() (line 368) returns once ProcessDiskRequest has returned.
Join(process) == process = "done"

WorkerAt(at, r, process) == [pc |-> at, r |-> r, process |-> process]

\* The constructor: the worker waits in request_queue_.Get().
InitScheduler ==
    /\ request_queue_ = <<>>
    /\ background_thread_ = WorkerAt("get", nullopt, "none")
    /\ requests = <<>>
    /\ device = [p \in PageIds |-> 0]
    /\ destructor = "none"

(***************************************************************************)
(* Insert and Remove of the hash table in the pieces between which other   *)
(* threads run: each FetchPageWrite is a place where the thread may wait.  *)
(***************************************************************************)
NoTableCall ==
    [name |-> "None", key |-> 0, value |-> 0, directory_page_id |-> INVALID_PAGE_ID,
     bucket_idx |-> 0, bucket_page_id |-> INVALID_PAGE_ID, ret |-> FALSE, round |-> 0]

InitTableThreads(n) ==
    /\ page_latch = [p \in 0 .. MaxTablePages |-> 0]
    /\ table_pc = [t \in Threads |-> "idle"]
    /\ table_loc = [t \in Threads |-> NoTableCall]
    /\ table_calls = [t \in Threads |-> n]

\* Insert, lines 580-586: the directory of the key, made if the header has
\* none.
FindOrCreateDirectory(t, key) ==
    LET directory_idx == HashToDirectoryIndex(t.header, Hash(key))
    IN  IF t.header.directory_page_ids_[directory_idx] = INVALID_PAGE_ID
        THEN [t EXCEPT
                !.header.directory_page_ids_[directory_idx] = t.next_page_id,
                !.directory_pages = (t.next_page_id :>
                                        DirectoryPage_Init(t.directory_max_depth_))
                                    @@ t.directory_pages,
                !.next_page_id = t.next_page_id + 1]
        ELSE t

DirectoryOf(t, key) == t.header.directory_page_ids_[HashToDirectoryIndex(t.header, Hash(key))]

\* Insert, lines 592-599: the bucket of the key, made if the slot has none.
FindOrCreateBucket(t, directory_page_id, key) ==
    LET bucket_idx == HashToBucketIndex(t.directory_pages[directory_page_id], Hash(key))
    IN  IF GetBucketPageId(t.directory_pages[directory_page_id], bucket_idx) = INVALID_PAGE_ID
        THEN [t EXCEPT
                !.bucket_pages = (t.next_page_id :>
                                     BucketPage_Init(NewPageMemory, BucketMaxSize))
                                 @@ t.bucket_pages,
                !.directory_pages[directory_page_id] =
                    SetLocalDepth(SetBucketPageId(@, bucket_idx, t.next_page_id),
                                  bucket_idx, 0),
                !.next_page_id = t.next_page_id + 1]
        ELSE t

\* Insert, lines 610-621: the bucket is full; directory is the page the
\* thread latched in line 588.
SplitsBucket(t, l) ==
    /\ ~BucketPage_Lookup(t.bucket_pages[l.bucket_page_id], l.key).found
    /\ IsFull(t.bucket_pages[l.bucket_page_id])

CannotGrow(t, l) ==
    /\ GetLocalDepth(t.directory_pages[l.directory_page_id], l.bucket_idx)
         = GetGlobalDepth(t.directory_pages[l.directory_page_id])
    /\ AtMaxDepth(t.directory_pages[l.directory_page_id])

GrowAndSplit(t, l) ==
    LET directory == t.directory_pages[l.directory_page_id]
        grown == IF GetLocalDepth(directory, l.bucket_idx) = GetGlobalDepth(directory)
                 THEN IncrGlobalDepth(directory)
                 ELSE directory
    IN  SplitBucket([t EXCEPT !.directory_pages[l.directory_page_id] =
                                 IncrLocalDepth(grown, l.bucket_idx)],
                    l.directory_page_id, l.bucket_page_id, l.bucket_idx)

\* Insert, lines 604-628, of a bucket that is not split: ret is what Insert
\* returns.
InsertInBucket(t, l) ==
    IF BucketPage_Lookup(t.bucket_pages[l.bucket_page_id], l.key).found
    THEN [ret |-> FALSE, t |-> t]
    ELSE [ret |-> BucketPage_Insert(t.bucket_pages[l.bucket_page_id], l.key, l.value).ok,
          t |-> [t EXCEPT !.bucket_pages[l.bucket_page_id] =
                             BucketPage_Insert(@, l.key, l.value).b]]

\* Remove, lines 683-692
RemoveFromBucket(t, l) ==
    LET removed == BucketPage_Remove(t.bucket_pages[l.bucket_page_id], l.key)
    IN  IF ~removed.ok
        THEN [ret |-> FALSE, t |-> t]
        ELSE [ret |-> TRUE,
              t |-> [TryMergeBucket([t EXCEPT !.bucket_pages[l.bucket_page_id] = removed.b],
                                    l.directory_page_id, l.bucket_idx)
                     EXCEPT !.directory_pages[l.directory_page_id] = Shrink(@)]]

\* The runs about one component leave the other components as constructed.
NoMore == NoDirectoryCalls /\ NoBucketCalls /\ InitScheduler /\ InitTableThreads(0)

(***************************************************************************)
(* BufferPoolManager (buffer_pool_manager.cpp).  A pool value s is the     *)
(* record of the manager's fields; an operation returns a result: the pool *)
(* afterwards, what the call returned, the fault that stopped it ("none",  *)
(* "block": waits forever for a lock, "throw": uncaught exception) and     *)
(* whether it ran into undefined behaviour.                                *)
(***************************************************************************)
NewPageRecord == [page_id |-> INVALID_PAGE_ID, pin_count |-> 0, is_dirty |-> FALSE, data |-> 0]

\* BufferPoolManager::BufferPoolManager: every frame is in the free list.
NewPool(k) ==
    [pages |-> [f \in Frames |-> NewPageRecord],
     page_table |-> [p \in PageIds |-> NoFrame],
     free_list |-> [i \in 1 .. PoolSize |-> i - 1],
     next_page_id |-> 0,
     replacer |-> NewReplacer(PoolSize, k),
     latch |-> FALSE,
     disk |-> [p \in PageIds |-> 0]]

Result(s, ok, frame, pid, fault, ub) ==
    [s |-> s, ok |-> ok, frame |-> frame, pid |-> pid, fault |-> fault, ub |-> ub]

FaultOf(exc) == IF exc = "none" THEN "none" ELSE IF exc = "blocked" THEN "block" ELSE "throw"

Resident(s, page_id) == page_id \in PageIds /\ s.page_table[page_id] # NoFrame

\* Mutant of TableErase: the old mapping is left in the page table.
TableErase_Keep(page_table, page_id) == page_table

\* page_table_.erase(page_id)
TableErase(page_table, page_id) ==
    IF page_id \in PageIds THEN [page_table EXCEPT ![page_id] = NoFrame] ELSE page_table

\* page_table_.emplace(page_id, frame_id): an existing entry is kept.
TableEmplace(page_table, page_id, frame_id) ==
    IF page_table[page_id] = NoFrame THEN [page_table EXCEPT ![page_id] = frame_id]
    ELSE page_table

\* disk_scheduler_->Schedule({true, data, page_id, promise}); future.get()
ScheduleWrite(disk_, page_id, data) ==
    IF page_id \in PageIds THEN [disk_ EXCEPT ![page_id] = data] ELSE disk_

\* disk_scheduler_->Schedule({false, data, page_id, promise}); future.get()
ScheduleRead(disk_, page_id) == disk_[page_id]

\* The frame a new or fetched page goes to: the back of the free list, or
\* the replacer's victim.
ObtainFrame(s) ==
    IF s.free_list # <<>>
    THEN [found |-> TRUE, frame_id |-> Back(s.free_list), exc |-> "none",
          s |-> [s EXCEPT !.free_list = PopBack(@)]]
    ELSE LET e == Evict(s.replacer)
         IN  [found |-> e.found, frame_id |-> e.frame_id, exc |-> e.exc,
              s |-> [s EXCEPT !.replacer = e.r]]

\* Mutant of WriteBackDirty: the frame is marked clean and nothing is written.
WriteBackDirty_NoWrite(s, frame_id) ==
    [s EXCEPT !.pages[frame_id].is_dirty = FALSE]

\* "Write back dirty page": the frame's old contents go to disk.
WriteBackDirty(s, frame_id) ==
    IF s.pages[frame_id].is_dirty
    THEN [s EXCEPT !.disk = ScheduleWrite(@, s.pages[frame_id].page_id, s.pages[frame_id].data),
                   !.pages[frame_id].is_dirty = FALSE]
    ELSE s

\* Mutant of Touch: the access is recorded and the frame is not pinned down.
Touch_NoSetEvictable(r, frame_id) == RecordAccess(r, frame_id)

\* replacer_->RecordAccess(frame_id); replacer_->SetEvictable(frame_id, false)
Touch(r, frame_id) ==
    LET ra == RecordAccess(r, frame_id)
        se == SetEvictable(ra.r, frame_id, FALSE)
    IN  IF ra.exc # "none" THEN ra
        ELSE Outcome(se.r, se.exc, ra.ub, FALSE, NoFrame)

\* BufferPoolManager::NewPage.  latch_ is never locked here and is unlocked
\* before the successful return.
NewPage(s) ==
    LET o == ObtainFrame(s)
    IN  IF o.exc # "none" THEN Result(s, FALSE, NoFrame, INVALID_PAGE_ID, FaultOf(o.exc), FALSE)
        ELSE IF ~o.found THEN Result(s, FALSE, NoFrame, INVALID_PAGE_ID, "none", FALSE)
        ELSE LET frame_id == o.frame_id
                 s1 == WriteBackDirty(o.s, frame_id)
                 page_id == s1.next_page_id
                 t == Touch(s1.replacer, frame_id)
                 s2 == [s1 EXCEPT
                          !.next_page_id = @ + 1,
                          !.page_table = TableEmplace(TableErase(@, s1.pages[frame_id].page_id),
                                                      page_id, frame_id),
                          !.pages[frame_id] = [page_id |-> page_id, pin_count |-> 1,
                                               is_dirty |-> s1.pages[frame_id].is_dirty,
                                               data |-> 0],
                          !.replacer = t.r,
                          !.latch = FALSE]
             IN  Result(s2, TRUE, frame_id, page_id, FaultOf(t.exc), t.ub \/ ~s.latch)

\* BufferPoolManager::FetchPage.  latch_ is not touched.
FetchPage(s, page_id) ==
    IF page_id = INVALID_PAGE_ID THEN Result(s, FALSE, NoFrame, page_id, "none", FALSE)
    ELSE IF Resident(s, page_id)
    THEN LET frame_id == s.page_table[page_id]
             t == Touch(s.replacer, frame_id)
         IN  Result([s EXCEPT !.replacer = t.r, !.pages[frame_id].pin_count = @ + 1],
                    TRUE, frame_id, page_id, FaultOf(t.exc), t.ub)
    ELSE LET o == ObtainFrame(s)
         IN  IF o.exc # "none" THEN Result(s, FALSE, NoFrame, page_id, FaultOf(o.exc), FALSE)
             ELSE IF ~o.found THEN Result(s, FALSE, NoFrame, page_id, "none", FALSE)
             ELSE LET frame_id == o.frame_id
                      s1 == WriteBackDirty(o.s, frame_id)
                      t == Touch(s1.replacer, frame_id)
                      s2 == [s1 EXCEPT
                               !.page_table = TableEmplace(TableErase(@, s1.pages[frame_id].page_id),
                                                           page_id, frame_id),
                               !.pages[frame_id] = [page_id |-> page_id, pin_count |-> 1,
                                                    is_dirty |-> s1.pages[frame_id].is_dirty,
                                                    data |-> ScheduleRead(s1.disk, page_id)],
                               !.replacer = t.r]
                  IN  Result(s2, TRUE, frame_id, page_id, FaultOf(t.exc), t.ub)

\* BufferPoolManager::UnpinPage.  is_dirty_ is set before the pin count is
\* looked at; latch_ is unlocked (never locked) before the successful return.
UnpinPage(s, page_id, is_dirty) ==
    IF page_id = INVALID_PAGE_ID \/ ~Resident(s, page_id)
    THEN Result(s, FALSE, NoFrame, page_id, "none", FALSE)
    ELSE LET frame_id == s.page_table[page_id]
             s1 == IF is_dirty THEN [s EXCEPT !.pages[frame_id].is_dirty = TRUE] ELSE s
         IN  IF s1.pages[frame_id].pin_count = 0
             THEN Result(s1, FALSE, NoFrame, page_id, "none", FALSE)
             ELSE LET s2 == [s1 EXCEPT !.pages[frame_id].pin_count = @ - 1]
                      se == IF s2.pages[frame_id].pin_count = 0
                            THEN SetEvictable(s2.replacer, frame_id, TRUE)
                            ELSE Outcome(s2.replacer, "none", FALSE, FALSE, NoFrame)
                  IN  Result([s2 EXCEPT !.replacer = se.r, !.latch = FALSE],
                             TRUE, NoFrame, page_id, FaultOf(se.exc), ~s.latch)

\* BufferPoolManager::FlushPage.  latch_ stays locked when the page is not
\* resident.
FlushPage(s, page_id) ==
    IF page_id = INVALID_PAGE_ID THEN Result(s, FALSE, NoFrame, page_id, "none", FALSE)
    ELSE IF s.latch THEN Result(s, FALSE, NoFrame, page_id, "block", FALSE)
    ELSE IF ~Resident(s, page_id)
    THEN Result([s EXCEPT !.latch = TRUE], FALSE, NoFrame, page_id, "none", FALSE)
    ELSE LET frame_id == s.page_table[page_id]
         IN  Result([s EXCEPT !.disk = ScheduleWrite(@, s.pages[frame_id].page_id,
                                                     s.pages[frame_id].data),
                              !.pages[frame_id].is_dirty = FALSE,
                              !.latch = FALSE],
                    TRUE, NoFrame, page_id, "none", FALSE)

\* The loop body of FlushAllPages for frames i .. pool_size_-1.
RECURSIVE FlushFrom(_, _)
FlushFrom(s, i) ==
    IF i >= PoolSize THEN s
    ELSE IF s.pages[i].page_id = INVALID_PAGE_ID THEN FlushFrom(s, i + 1)
    ELSE FlushFrom([s EXCEPT !.disk = ScheduleWrite(@, s.pages[i].page_id, s.pages[i].data),
                             !.pages[i].is_dirty = FALSE], i + 1)

\* BufferPoolManager::FlushAllPages
FlushAllPages(s) ==
    IF s.latch THEN Result(s, FALSE, NoFrame, INVALID_PAGE_ID, "block", FALSE)
    ELSE Result([FlushFrom(s, 0) EXCEPT !.latch = FALSE], TRUE, NoFrame, INVALID_PAGE_ID,
                "none", FALSE)

\* BufferPoolManager::DeletePage.  latch_ stays locked when the page is
\* pinned.  DeallocatePage does nothing.
DeletePage(s, page_id) ==
    IF page_id = INVALID_PAGE_ID THEN Result(s, TRUE, NoFrame, page_id, "none", FALSE)
    ELSE IF s.latch THEN Result(s, FALSE, NoFrame, page_id, "block", FALSE)
    ELSE IF ~Resident(s, page_id)
    THEN Result([s EXCEPT !.latch = FALSE], TRUE, NoFrame, page_id, "none", FALSE)
    ELSE LET frame_id == s.page_table[page_id]
         IN  IF s.pages[frame_id].pin_count > 0
             THEN Result([s EXCEPT !.latch = TRUE], FALSE, NoFrame, page_id, "none", FALSE)
             ELSE LET rm == Remove(s.replacer, frame_id)
                  IN  Result([s EXCEPT !.page_table = TableErase(@, page_id),
                                       !.free_list = Append(@, frame_id),
                                       !.replacer = rm.r,
                                       !.pages[frame_id] = NewPageRecord,
                                       !.latch = FALSE],
                             TRUE, NoFrame, page_id, FaultOf(rm.exc), rm.ub)

(***************************************************************************)
(* The single-threaded buffer pool: one action per public operation, each  *)
(* the whole call.  A caller passes INVALID_PAGE_ID or a page id NewPage   *)
(* has returned, and writes bytes only into a page it has pinned.  The     *)
(* actions pass the page ids NewPage has returned.                         *)
(* Observers: op records the last call and its return value; owed[p] is    *)
(* what page p must show: the bytes the caller last wrote, as long as      *)
(* every write was followed by UnpinPage(p, true) before p left its frame  *)
(* and p was not deleted (any bytes otherwise).                            *)
(***************************************************************************)
Pool ==
    [pages |-> pages_, page_table |-> page_table_, free_list |-> free_list_,
     next_page_id |-> next_page_id_, replacer |-> replacer_, latch |-> latch_,
     disk |-> disk]

Call(name, page_id, is_dirty) ==
    [name |-> name, pid |-> page_id, dirty |-> is_dirty, ok |-> FALSE]

\* The page ids a caller holds: those NewPage has returned.
CallablePageIds == {p \in PageIds : p < next_page_id_}

\* The page a frame held before NewPage / FetchPage reused it.
Evicted(res) ==
    IF res.ok /\ res.frame # NoFrame /\ pages_[res.frame].page_id # res.pid
    THEN pages_[res.frame].page_id ELSE INVALID_PAGE_ID

\* The step of a call with result res: it returns, or never does.
Apply(res, call) ==
    \E abort \in (IF res.ub \/ res.fault = "block" THEN BOOLEAN ELSE {FALSE}) :
        LET st == IF res.fault = "throw" \/ abort THEN "abort"
                  ELSE IF res.fault = "block" THEN "hang" ELSE "run"
        IN  /\ status' = st
            /\ op' = IF watch = "calls" /\ st = "run"
                     THEN [call EXCEPT !.ok = res.ok, !.pid = res.pid]
                     ELSE op
            /\ pages_' = IF st = "run" THEN res.s.pages ELSE pages_
            /\ page_table_' = IF st = "run" THEN res.s.page_table ELSE page_table_
            /\ free_list_' = IF st = "run" THEN res.s.free_list ELSE free_list_
            /\ next_page_id_' = IF st = "run" THEN res.s.next_page_id ELSE next_page_id_
            /\ replacer_' = IF st = "run" THEN res.s.replacer ELSE replacer_
            /\ latch_' = IF st = "run" THEN res.s.latch ELSE latch_
            /\ disk' = IF st = "run" THEN res.s.disk ELSE disk
            /\ watch' = watch
            /\ UNCHANGED <<thread_vars, ht_vars, ext_vars>>

\* The observers after a step that makes them o and u.
Observe(o, u) ==
    /\ owed' = IF watch = "bytes" /\ status' = "run" THEN o ELSE owed
    /\ undeclared' = IF watch = "bytes" /\ status' = "run" THEN u ELSE undeclared

\* Page page_id leaves its frame: undeclared bytes are no longer owed.
OwedAfterDrop(page_id) ==
    IF page_id \in PageIds /\ undeclared[page_id] THEN [owed EXCEPT ![page_id] = DataVals]
    ELSE owed

UndeclaredAfterDrop(page_id) ==
    IF page_id \in PageIds THEN [undeclared EXCEPT ![page_id] = FALSE] ELSE undeclared

NewPageOp ==
    /\ status = "run"
    /\ next_page_id_ < MaxPages
    /\ LET res == NewPage(Pool)
       IN  /\ Apply(res, Call("NewPage", INVALID_PAGE_ID, FALSE))
           /\ IF res.ok
              THEN Observe([OwedAfterDrop(Evicted(res)) EXCEPT ![res.pid] = {0}],
                           [UndeclaredAfterDrop(Evicted(res)) EXCEPT ![res.pid] = FALSE])
              ELSE Observe(owed, undeclared)

FetchPageOp ==
    /\ status = "run"
    /\ \E page_id \in CallablePageIds :
        /\ Resident(Pool, page_id) =>
              /\ pages_[page_table_[page_id]].pin_count < MaxPin
              /\ replacer_.node_store[page_table_[page_id]].k < MaxAccess
        /\ LET res == FetchPage(Pool, page_id)
           IN  /\ Apply(res, Call("FetchPage", page_id, FALSE))
               /\ Observe(OwedAfterDrop(Evicted(res)), UndeclaredAfterDrop(Evicted(res)))

UnpinPageOp ==
    /\ status = "run"
    /\ \E page_id \in CallablePageIds, is_dirty \in BOOLEAN :
        LET res == UnpinPage(Pool, page_id, is_dirty)
        IN  /\ Apply(res, Call("UnpinPage", page_id, is_dirty))
            /\ Observe(owed, IF res.ok /\ is_dirty
                             THEN [undeclared EXCEPT ![page_id] = FALSE] ELSE undeclared)

FlushPageOp ==
    /\ status = "run"
    /\ \E page_id \in CallablePageIds :
        /\ Apply(FlushPage(Pool, page_id), Call("FlushPage", page_id, FALSE))
        /\ Observe(owed, undeclared)

FlushAllPagesOp ==
    /\ status = "run"
    /\ Apply(FlushAllPages(Pool), Call("FlushAllPages", INVALID_PAGE_ID, FALSE))
    /\ Observe(owed, undeclared)

DeletePageOp ==
    /\ status = "run"
    /\ \E page_id \in CallablePageIds :
        LET res == DeletePage(Pool, page_id)
        IN  /\ Apply(res, Call("DeletePage", page_id, FALSE))
            /\ IF res.ok /\ Resident(Pool, page_id)
               THEN Observe([owed EXCEPT ![page_id] = DataVals],
                            [undeclared EXCEPT ![page_id] = FALSE])
               ELSE Observe(owed, undeclared)

\* The caller writes bytes through Page::GetData() of a page it has pinned.
WriteDataOp ==
    /\ status = "run"
    /\ \E page_id \in PageIds, v \in 1 .. MaxData :
        /\ Resident(Pool, page_id)
        /\ pages_[page_table_[page_id]].pin_count > 0
        /\ pages_' = [pages_ EXCEPT ![page_table_[page_id]].data = v]
        /\ op' = IF watch = "calls" THEN Call("WriteData", page_id, FALSE) ELSE op
        /\ UNCHANGED <<page_table_, free_list_, next_page_id_, replacer_, latch_, disk,
                       status, watch>>
        /\ UNCHANGED <<thread_vars, ht_vars, ext_vars>>
        /\ Observe([owed EXCEPT ![page_id] = {v}], [undeclared EXCEPT ![page_id] = TRUE])

InitPool(k) ==
    LET s == NewPool(k)
    IN  /\ pages_ = s.pages
        /\ page_table_ = s.page_table
        /\ free_list_ = s.free_list
        /\ next_page_id_ = s.next_page_id
        /\ replacer_ = s.replacer
        /\ latch_ = s.latch
        /\ disk = s.disk

NoCall == [name |-> "None", page_id |-> INVALID_PAGE_ID, frame_id |-> NoFrame]

InitThreads(n) ==
    /\ pc = [t \in Threads |-> "idle"]
    /\ loc = [t \in Threads |-> NoCall]
    /\ holder = 0
    /\ calls = [t \in Threads |-> n]

InitObservers(w) ==
    /\ NoTableCalls
    /\ NoReplacerCalls
    /\ NoGuards
    /\ NoMore
    /\ InitThreads(0)
    /\ status = "run"
    /\ watch = w
    /\ op = Call("None", INVALID_PAGE_ID, FALSE)
    /\ owed = [p \in PageIds |-> DataVals]
    /\ undeclared = [p \in PageIds |-> FALSE]

Init == (\E k \in 1 .. MaxK : InitPool(k)) /\ InitObservers("calls")

InitBytes == InitPool(MaxK) /\ InitObservers("bytes")

Next ==
    \/ NewPageOp
    \/ FetchPageOp
    \/ UnpinPageOp
    \/ FlushPageOp
    \/ FlushAllPagesOp
    \/ DeletePageOp

\* The calls that pin, unpin and evict pages, and the caller's writes to the
\* pages it has pinned.
NextBytes ==
    \/ NewPageOp
    \/ FetchPageOp
    \/ UnpinPageOp
    \/ WriteDataOp

\* The buffer pool under single-threaded calls, recording each call.
Spec == Init /\ [][Next]_vars

\* The pool written, unpinned, evicted and fetched, recording the bytes each
\* page owes.
SpecBytes == InitBytes /\ [][NextBytes]_vars

(***************************************************************************)
(* The buffer pool under concurrent calls.  Each thread runs its call step *)
(* by step; a step is one access to the shared fields in the order of the  *)
(* source.  latch_ is locked only where the source locks it (FlushPage,    *)
(* DeletePage); the steps of NewPage, FetchPage and UnpinPage run without  *)
(* it, so they interleave.  holder is the thread that locked latch_.       *)
(***************************************************************************)
SetPool(s) ==
    /\ pages_' = s.pages
    /\ page_table_' = s.page_table
    /\ free_list_' = s.free_list
    /\ next_page_id_' = s.next_page_id
    /\ replacer_' = s.replacer
    /\ latch_' = s.latch
    /\ disk' = s.disk

Idle(t) == status = "run" /\ pc[t] = "idle" /\ calls[t] > 0

\* Page ids the calls in progress will still allocate.
Allocating == Cardinality({t \in Threads : loc[t].name = "NewPage" /\ pc[t] # "idle"
                                           /\ loc[t].page_id = INVALID_PAGE_ID})

\* Lines 112-123 and 169-180: the frame comes from the back of the free
\* list (read here, popped in the next step) or from the replacer; with
\* neither the call returns nullptr.
BeginMiss(t, name, page_id) ==
    /\ calls' = [calls EXCEPT ![t] = @ - 1]
    /\ IF free_list_ # <<>>
       THEN /\ loc' = [loc EXCEPT ![t] = [name |-> name, page_id |-> page_id,
                                          frame_id |-> Back(free_list_)]]
            /\ pc' = [pc EXCEPT ![t] = "pop"]
            /\ UNCHANGED replacer_
       ELSE LET e == Evict(replacer_)
            IN  /\ replacer_' = e.r
                /\ loc' = [loc EXCEPT ![t] = [name |-> name, page_id |-> page_id,
                                              frame_id |-> e.frame_id]]
                /\ pc' = [pc EXCEPT ![t] = IF e.found THEN "write_back" ELSE "idle"]
    /\ UNCHANGED <<pages_, page_table_, free_list_, next_page_id_, latch_, disk, holder,
                   seq_vars>>

\* BufferPoolManager::NewPage, lines 110-123
NewPage_Begin(t) ==
    /\ Idle(t)
    /\ next_page_id_ + Allocating < MaxPages
    /\ BeginMiss(t, "NewPage", INVALID_PAGE_ID)

\* BufferPoolManager::FetchPage, lines 166-180 (the page is not resident)
FetchPage_Begin(t) ==
    /\ Idle(t)
    /\ \E page_id \in CallablePageIds :
        /\ ~Resident(Pool, page_id)
        /\ BeginMiss(t, "FetchPage", page_id)

\* BufferPoolManager::FetchPage, lines 155-165 (the page is resident)
FetchPage_Hit(t) ==
    /\ Idle(t)
    /\ \E page_id \in CallablePageIds :
        /\ Resident(Pool, page_id)
        /\ pages_[page_table_[page_id]].pin_count < MaxPin
        /\ replacer_.node_store[page_table_[page_id]].k < MaxAccess
        /\ SetPool(FetchPage(Pool, page_id).s)
    /\ calls' = [calls EXCEPT ![t] = @ - 1]
    /\ UNCHANGED <<pc, loc, holder, seq_vars>>

\* free_list_.pop_back(), lines 115 and 172
PopFreeList(t) ==
    /\ status = "run" /\ pc[t] = "pop"
    /\ free_list_' = IF free_list_ = <<>> THEN <<>> ELSE PopBack(free_list_)
    /\ pc' = [pc EXCEPT ![t] = "write_back"]
    /\ UNCHANGED <<pages_, page_table_, next_page_id_, replacer_, latch_, disk, holder,
                   loc, calls, seq_vars>>

\* "Write back dirty page", lines 124-132 and 181-189
WriteBack(t) ==
    /\ status = "run" /\ pc[t] = "write_back"
    /\ SetPool(WriteBackDirty(Pool, loc[t].frame_id))
    /\ pc' = [pc EXCEPT ![t] = "install"]
    /\ UNCHANGED <<holder, loc, calls, seq_vars>>

\* Lines 133-142 and 190-197: the page id, the page table, the frame's
\* fields (FetchPage reads the bytes from disk in the last step).
Install(t) ==
    /\ status = "run" /\ pc[t] = "install"
    /\ LET frame_id == loc[t].frame_id
           page_id == IF loc[t].name = "NewPage" THEN next_page_id_ ELSE loc[t].page_id
       IN  /\ next_page_id_' = IF loc[t].name = "NewPage" THEN next_page_id_ + 1
                               ELSE next_page_id_
           /\ page_table_' = TableEmplace(TableErase(page_table_, pages_[frame_id].page_id),
                                          page_id, frame_id)
           /\ pages_' = [pages_ EXCEPT ![frame_id] =
                            [page_id |-> page_id, pin_count |-> 1,
                             is_dirty |-> pages_[frame_id].is_dirty, data |-> 0]]
           /\ loc' = [loc EXCEPT ![t].page_id = page_id]
    /\ pc' = [pc EXCEPT ![t] = "touch"]
    /\ UNCHANGED <<free_list_, replacer_, latch_, disk, holder, calls, seq_vars>>

\* Lines 143-147 (NewPage: latch_.unlock(), never locked by this call) and
\* 198-206 (FetchPage: the read from disk).
Finish(t) ==
    /\ status = "run" /\ pc[t] = "touch"
    /\ replacer_' = Touch(replacer_, loc[t].frame_id).r
    /\ IF loc[t].name = "NewPage"
       THEN latch_' = FALSE /\ holder' = 0 /\ UNCHANGED pages_
       ELSE /\ pages_' = [pages_ EXCEPT ![loc[t].frame_id].data =
                             ScheduleRead(disk, loc[t].page_id)]
            /\ UNCHANGED <<latch_, holder>>
    /\ pc' = [pc EXCEPT ![t] = "idle"]
    /\ loc' = [loc EXCEPT ![t] = NoCall]
    /\ UNCHANGED <<page_table_, free_list_, next_page_id_, disk, calls, seq_vars>>

\* BufferPoolManager::UnpinPage: no lock is taken; latch_.unlock() before
\* the successful return.
UnpinPage_Call(t) ==
    /\ Idle(t)
    /\ \E page_id \in CallablePageIds, is_dirty \in BOOLEAN :
        LET res == UnpinPage(Pool, page_id, is_dirty)
        IN  /\ SetPool(res.s)
            /\ holder' = IF res.ok THEN 0 ELSE holder
    /\ calls' = [calls EXCEPT ![t] = @ - 1]
    /\ UNCHANGED <<pc, loc, seq_vars>>

\* latch_.lock() of FlushPage (line 241) and DeletePage (line 280): the
\* thread waits while latch_ is locked.
Lock(t, name) ==
    /\ Idle(t)
    /\ ~latch_
    /\ latch_' = TRUE
    /\ holder' = t
    /\ \E page_id \in CallablePageIds :
        loc' = [loc EXCEPT ![t] = [name |-> name, page_id |-> page_id, frame_id |-> NoFrame]]
    /\ pc' = [pc EXCEPT ![t] = "locked"]
    /\ calls' = [calls EXCEPT ![t] = @ - 1]
    /\ UNCHANGED <<pages_, page_table_, free_list_, next_page_id_, replacer_, disk,
                   seq_vars>>

FlushPage_Lock(t) == Lock(t, "FlushPage")

DeletePage_Lock(t) == Lock(t, "DeletePage")

\* The rest of the call after latch_.lock(): s.latch tells whether the call
\* returned with latch_ still locked.
Locked(t, res) ==
    /\ SetPool(res.s)
    /\ holder' = IF res.s.latch THEN t ELSE 0
    /\ pc' = [pc EXCEPT ![t] = "idle"]
    /\ loc' = [loc EXCEPT ![t] = NoCall]
    /\ UNCHANGED <<calls, seq_vars>>

\* BufferPoolManager::FlushPage, lines 242-255
FlushPage_Body(t) ==
    /\ status = "run" /\ pc[t] = "locked" /\ loc[t].name = "FlushPage"
    /\ Locked(t, FlushPage([Pool EXCEPT !.latch = FALSE], loc[t].page_id))

\* BufferPoolManager::DeletePage, lines 281-301
DeletePage_Body(t) ==
    /\ status = "run" /\ pc[t] = "locked" /\ loc[t].name = "DeletePage"
    /\ Locked(t, DeletePage([Pool EXCEPT !.latch = FALSE], loc[t].page_id))

InitConc ==
    /\ InitPool(MaxK)
    /\ NoTableCalls
    /\ NoReplacerCalls
    /\ NoGuards
    /\ NoMore
    /\ InitThreads(MaxCalls)
    /\ status = "run"
    /\ watch = "none"
    /\ op = Call("None", INVALID_PAGE_ID, FALSE)
    /\ owed = [p \in PageIds |-> DataVals]
    /\ undeclared = [p \in PageIds |-> FALSE]

NextConc ==
    \E t \in Threads :
        \/ NewPage_Begin(t)
        \/ FetchPage_Begin(t)
        \/ FetchPage_Hit(t)
        \/ PopFreeList(t)
        \/ WriteBack(t)
        \/ Install(t)
        \/ Finish(t)
        \/ UnpinPage_Call(t)
        \/ FlushPage_Lock(t)
        \/ FlushPage_Body(t)
        \/ DeletePage_Lock(t)
        \/ DeletePage_Body(t)

\* The buffer pool called by NumThreads threads at once.
SpecConc == InitConc /\ [][NextConc]_vars

(***************************************************************************)
(* The calls of the hash table                                             *)
(***************************************************************************)
InsertOp ==
    /\ status = "run"
    /\ \E key \in Keys, value \in Values :
        LET res == HashTable_Insert(Table, key, value)
        IN  /\ res.t.next_page_id <= MaxTablePages
            /\ SetTable(res.t)
            /\ ref' = IF res.ok THEN [ref EXCEPT ![key] = {value}] ELSE ref
            /\ ht_op' = TableCall("Insert", key, res.ok)
    /\ UNCHANGED <<bpm_vars, status, op, watch, obs_vars, thread_vars, ext_vars>>

RemoveOp ==
    /\ status = "run"
    /\ \E key \in Keys :
        LET res == HashTable_Remove(Table, key)
        IN  \* assert(bucket_idx < Size()) aborts the build that has asserts
            \E aborted \in (IF res.failed THEN BOOLEAN ELSE {FALSE}) :
                /\ status' = IF aborted THEN "abort" ELSE "run"
                /\ SetTable(IF aborted THEN Table ELSE res.t)
                /\ ref' = IF res.ok /\ ~aborted THEN [ref EXCEPT ![key] = {}] ELSE ref
                /\ ht_op' = TableCall("Remove", key, res.ok /\ ~aborted)
    /\ UNCHANGED <<bpm_vars, op, watch, obs_vars, thread_vars, ext_vars>>

GetValueOp ==
    /\ status = "run"
    /\ \E key \in Keys :
        ht_op' = TableCall("GetValue", key, GetValue(Table, key) # {})
    /\ UNCHANGED <<bpm_vars, status, op, watch, obs_vars, thread_vars, ext_vars, ref,
                   header_page, directory_pages, bucket_pages, table_next_page_id,
                   directory_max_depth_>>

InitHT ==
    /\ InitPool(MaxK)
    /\ NoReplacerCalls
    /\ NoGuards
    /\ NoMore
    /\ InitThreads(0)
    /\ status = "run"
    /\ watch = "table"
    /\ op = Call("None", INVALID_PAGE_ID, FALSE)
    /\ owed = [p \in PageIds |-> DataVals]
    /\ undeclared = [p \in PageIds |-> FALSE]
    /\ \E directory_max_depth \in 0 .. MaxDirectoryDepth : InitTable(directory_max_depth)

NextHT ==
    \/ InsertOp
    \/ RemoveOp
    \/ GetValueOp

\* The extendible hash table under single-threaded Insert/Remove/GetValue.
SpecHT == InitHT /\ [][NextHT]_vars

(***************************************************************************)
(* Claims about the buffer pool                                            *)
(***************************************************************************)
ResidentPages == {p \in PageIds : page_table_[p] # NoFrame}
FreeFrames == {free_list_[i] : i \in 1 .. Len(free_list_)}
MappedFrames == {page_table_[p] : p \in ResidentPages}
PinCount(p) == pages_[page_table_[p]].pin_count
Exhausted == free_list_ = <<>> /\ \A f \in Frames : pages_[f].pin_count >= 1

\* C4: after any sequence of pool calls, |free list| + |page table| =
\* pool_size, no frame is counted twice (no duplicate in the free list, no
\* two pages on one frame, no frame both free and mapped), and no pin count
\* is negative.
C4_PoolAccounting ==
    /\ Len(free_list_) + Cardinality(ResidentPages) = PoolSize
    /\ Cardinality(FreeFrames) = Len(free_list_)
    /\ Cardinality(MappedFrames) = Cardinality(ResidentPages)
    /\ FreeFrames \cap MappedFrames = {}
    /\ \A f \in Frames : pages_[f].pin_count >= 0

\* C4 witness: a DeletePage that freed a frame after every page id was
\* handed out, with another page still resident.
C4_Witness ==
    /\ status = "run" /\ op.name = "DeletePage" /\ op.ok
    /\ next_page_id_ = MaxPages
    /\ Len(free_list_) >= 1 /\ ResidentPages # {}
    /\ op.pid \notin ResidentPages

\* C5: a resident frame is evictable in the replacer iff its pin count is 0,
\* and a step never takes a page with pin count >= 1 out of its frame.
C5_EvictableIffUnpinned ==
    \A f \in Frames :
        pages_[f].page_id # INVALID_PAGE_ID =>
            /\ replacer_.node_store[f].tracked
            /\ replacer_.node_store[f].is_evictable <=> (pages_[f].pin_count = 0)

C5_PinnedStays ==
    \A p \in PageIds :
        (page_table_[p] # NoFrame /\ PinCount(p) >= 1) =>
            /\ page_table_'[p] = page_table_[p]
            /\ pages_'[page_table_[p]].page_id = p

C5_PinnedNeverVictim == []C5_EvictableIffUnpinned /\ [][C5_PinnedStays]_vars

\* C5 witness: NewPage took a victim from the replacer while the other
\* frame held a pinned page.
C5_Witness ==
    /\ status = "run" /\ op.name = "NewPage" /\ op.ok
    /\ free_list_ = <<>>
    /\ \E p \in ResidentPages : p # op.pid /\ PinCount(p) >= 1
    /\ \E q \in PageIds : q < next_page_id_ /\ q \notin ResidentPages
    /\ replacer_.curr_size = 0

\* C6: a page whose bytes are owed shows them: in its frame while it is
\* resident (so FetchPage after an eviction returns them) and on disk while
\* it is not.
C6_RoundTrip ==
    \A p \in PageIds :
        IF page_table_[p] # NoFrame
        THEN pages_[page_table_[p]].data \in owed[p]
        ELSE disk[p] \in owed[p]

\* C6 witness: a page that was written, unpinned dirty, evicted and fetched
\* again (its replacer node is new) shows the written bytes.
C6_Witness ==
    \E p \in ResidentPages, v \in 1 .. MaxData :
        /\ status = "run"
        /\ owed[p] = {v} /\ ~undeclared[p]
        /\ PinCount(p) >= 1
        /\ ~pages_[page_table_[p]].is_dirty
        /\ replacer_.node_store[page_table_[p]].k = 1
        /\ pages_[page_table_[p]].data = v

\* C7: with the free list empty and every frame pinned, NewPage and
\* FetchPage of a non-resident page return null and change nothing of the
\* pool (page table, free list, replacer, frames, next page id, disk).
C7_Step ==
    (/\ status = "run" /\ status' = "run" /\ Exhausted
     /\ \/ op'.name = "NewPage"
        \/ op'.name = "FetchPage" /\ page_table_[op'.pid] = NoFrame)
    => (~op'.ok /\ UNCHANGED bpm_vars)

C7_ExhaustedReturnsNull == [][C7_Step]_vars

\* C7 witness: FetchPage of a non-resident page returned null in an
\* exhausted pool.
C7_Witness ==
    /\ status = "run" /\ Exhausted
    /\ op.name = "FetchPage" /\ ~op.ok
    /\ page_table_[op.pid] = NoFrame

\* C8 (as claimed): UnpinPage(pid, dirty) on a resident page with pin count
\* > 0 returns true, ORs the dirty flag in and decrements the pin count;
\* otherwise it returns false and leaves the frames and the replacer as they
\* were.
C8_Step ==
    (status = "run" /\ status' = "run" /\ op'.name = "UnpinPage") =>
        LET p == op'.pid
            f == page_table_[p]
        IN  IF f # NoFrame /\ pages_[f].pin_count > 0
            THEN /\ op'.ok
                 /\ pages_'[f].is_dirty = (pages_[f].is_dirty \/ op'.dirty)
                 /\ pages_'[f].pin_count = pages_[f].pin_count - 1
                 /\ replacer_'.node_store[f].is_evictable = (pages_'[f].pin_count = 0)
            ELSE /\ ~op'.ok
                 /\ pages_' = pages_
                 /\ replacer_' = replacer_

C8_UnpinRejectLeavesPage == [][C8_Step]_vars

\* C9 (as claimed): every call returns, and returns with the pool mutex
\* unlocked, so no later call waits for it forever.
C9_CallsReturnUnlocked ==
    /\ status # "hang"
    /\ status = "run" => ~latch_

\* C10 (as claimed): under any interleaving of concurrent calls, two calls
\* in progress never hold the same frame, every page of the page table is
\* on a frame of its own, and no frame is both in the free list and mapped.
InProgress(t) == pc[t] # "idle" /\ loc[t].frame_id # NoFrame

C10_FramesNotShared ==
    /\ \A t1, t2 \in Threads :
          (t1 # t2 /\ InProgress(t1) /\ InProgress(t2)) => loc[t1].frame_id # loc[t2].frame_id
    /\ Cardinality(MappedFrames) = Cardinality(ResidentPages)
    /\ FreeFrames \cap MappedFrames = {}

(***************************************************************************)
(* Claims about the extendible hash table                                  *)
(***************************************************************************)
\* What GetValue returns for every key.
Content == [key \in Keys |-> GetValue(Table, key)]

\* C1 (as claimed): after any sequence of Insert and Remove calls GetValue
\* returns, for every key, exactly what the reference map holds: the value
\* of the last successful Insert not followed by a successful Remove, and a
\* miss for every other key.
C1_ContentIsReferenceMap == \A key \in Keys : GetValue(Table, key) = ref[key]

\* C2 (as claimed): Insert of a key that is currently stored returns false
\* and Remove of a key that is not currently stored returns false, and both
\* leave what GetValue returns for every key unchanged.
C2_Step ==
    /\ (ht_op'.name = "Insert" /\ ref[ht_op'.key] # {})
          => (~ht_op'.ret /\ Content' = Content)
    /\ (ht_op'.name = "Remove" /\ ref[ht_op'.key] = {})
          => (status' = "run" /\ ~ht_op'.ret /\ Content' = Content)

C2_RejectionsChangeNothing == [][C2_Step]_vars

\* The bucket of key is full and cannot split: its local depth is the
\* global depth and the global depth is the directory's max_depth.
FullFor(key) ==
    LET directory_page_id ==
            header_page.directory_page_ids_[HashToDirectoryIndex(header_page, Hash(key))]
    IN  /\ directory_page_id # INVALID_PAGE_ID
        /\ LET directory == directory_pages[directory_page_id]
               bucket_idx == HashToBucketIndex(directory, Hash(key))
           IN  /\ directory.bucket_page_ids_[bucket_idx] # INVALID_PAGE_ID
               /\ bucket_pages[directory.bucket_page_ids_[bucket_idx]].size_ >= BucketMaxSize
               /\ directory.local_depths_[bucket_idx] = directory.global_depth_
               /\ directory.global_depth_ = directory.max_depth_

\* C3: Insert of a new key whose bucket is full and cannot split returns
\* false; GetValue returns for every key what it returned before, and the
\* header, the directories (global depth, local depths, bucket page ids)
\* and the buckets are unchanged.
C3_Step ==
    (ht_op'.name = "Insert" /\ ref[ht_op'.key] = {} /\ FullFor(ht_op'.key))
        => /\ ~ht_op'.ret
           /\ Content' = Content
           /\ header_page' = header_page
           /\ directory_pages' = directory_pages
           /\ bucket_pages' = bucket_pages

C3_FullTableInsertFails == [][C3_Step]_vars

\* A new key was refused by a table that holds BucketMaxSize other keys in
\* the key's bucket, after the directory grew to its max_depth.
C3_Witness ==
    /\ ht_op.name = "Insert"
    /\ ~ht_op.ret
    /\ ref[ht_op.key] = {}
    /\ FullFor(ht_op.key)
    /\ directory_max_depth_ > 0
    /\ Cardinality({key \in Keys : ref[key] # {} /\ Content[key] = ref[key]}) >= BucketMaxSize

(***************************************************************************)
(* The replacer called on its own, by one thread.  A call that throws      *)
(* returns to its caller (lruk_op.exc); a call that finds latch_ locked    *)
(* never returns; undefined behaviour ends the run in the build that       *)
(* detects it and goes on with the lists as erase left them in the others. *)
(***************************************************************************)
ReplacerFrameIds == 0 .. ReplacerFrames + 1

ListSizes == (0 - MaxListSize) .. MaxListSize

\* The step of a replacer call with outcome o.
ReplacerApply(o, call) ==
    \E abort \in (IF o.ub \/ o.exc = "blocked" THEN BOOLEAN ELSE {FALSE}) :
        LET st == IF abort THEN "abort" ELSE IF o.exc = "blocked" THEN "hang" ELSE "run"
        IN  /\ o.r.hist_size \in ListSizes
            /\ o.r.cache_size \in ListSizes
            /\ status' = st
            /\ lruk' = IF st = "run" THEN o.r ELSE lruk
            /\ lruk_op' = IF st = "run"
                          THEN [call EXCEPT !.found = o.found, !.exc = o.exc,
                                            !.frame_id = IF call.name = "Evict"
                                                         THEN o.frame_id ELSE @]
                          ELSE lruk_op
            /\ recency' = IF st # "run" THEN recency
                          ELSE IF call.name = "RecordAccess" /\ o.exc = "none"
                          THEN <<call.frame_id>> \o EraseValue(recency, call.frame_id)
                          ELSE SelectSeq(recency, LAMBDA f : f \in Tracked(o.r))
            /\ UNCHANGED <<bpm_vars, op, watch, obs_vars, thread_vars, ht_vars, guard_vars, more_vars>>

RecordAccessOp ==
    /\ status = "run"
    /\ \E frame_id \in ReplacerFrameIds :
        /\ frame_id <= ReplacerFrames => lruk.node_store[frame_id].k < ReplacerMaxCount
        /\ ReplacerApply(RecordAccess(lruk, frame_id),
                         ReplacerCall("RecordAccess", frame_id, FALSE))

SetEvictableOp ==
    /\ status = "run"
    /\ \E frame_id \in ReplacerFrameIds, set_evictable \in BOOLEAN :
        ReplacerApply(SetEvictable(lruk, frame_id, set_evictable),
                      ReplacerCall("SetEvictable", frame_id, set_evictable))

EvictOp ==
    /\ status = "run"
    /\ ReplacerApply(Evict(lruk), ReplacerCall("Evict", NoFrame, FALSE))

ReplacerRemoveOp ==
    /\ status = "run"
    /\ \E frame_id \in 0 .. ReplacerFrames :
        ReplacerApply(Remove(lruk, frame_id), ReplacerCall("Remove", frame_id, FALSE))

InitReplacerCalls ==
    /\ InitPool(MaxK)
    /\ NoTableCalls
    /\ NoGuards
    /\ NoMore
    /\ InitThreads(0)
    /\ status = "run"
    /\ watch = "none"
    /\ op = Call("None", INVALID_PAGE_ID, FALSE)
    /\ owed = [p \in PageIds |-> DataVals]
    /\ undeclared = [p \in PageIds |-> FALSE]
    /\ \E k \in 1 .. ReplacerMaxK :
        \/ InitReplacer(NewReplacer(ReplacerFrames, k))
        \/ InitReplacer(SizedReplacer(ReplacerFrames, k))

NextReplacer ==
    \/ RecordAccessOp
    \/ SetEvictableOp
    \/ EvictOp
    \/ ReplacerRemoveOp

\* The replacer under single-threaded calls, for every k and both builds.
SpecReplacer == InitReplacerCalls /\ [][NextReplacer]_vars

(***************************************************************************)
(* Claims about the replacer                                               *)
(***************************************************************************)
\* A step in which the named replacer call returned.
Returned(name) == status' = "run" /\ lruk_op'.name = name

\* The evictable frames with fewer than k recorded accesses.
EvictableBelowK(r) == {f \in Evictable(r) : r.node_store[f].k < r.k}

\* C11: Evict returns false exactly when no tracked frame is evictable; a
\* victim was evictable before the call and is not tracked after it; it has
\* fewer than k accesses whenever some evictable frame has.
C11_Step ==
    Returned("Evict") =>
        /\ lruk_op'.found <=> Evictable(lruk) # {}
        /\ lruk_op'.found =>
            /\ lruk_op'.frame_id \in Evictable(lruk)
            /\ lruk_op'.frame_id \notin Tracked(lruk')
            /\ EvictableBelowK(lruk) # {} => lruk_op'.frame_id \in EvictableBelowK(lruk)

C11_EvictPolicy == [][C11_Step]_vars

\* The place of a frame in a list (1 is the front).
IndexOf(list, f) == CHOOSE i \in 1 .. Len(list) : list[i] = f

\* The evictable frames that are in the same list as frame f.
EvictableWith(r, f) ==
    {g \in Evictable(r) : \/ InList(r.hist_list, f) /\ InList(r.hist_list, g)
                          \/ InList(r.cache_list, f) /\ InList(r.cache_list, g)}

\* C12: the victim's most recent RecordAccess is earlier than that of every
\* other evictable frame of its list.
C12_Step ==
    (Returned("Evict") /\ lruk_op'.found) =>
        \A g \in EvictableWith(lruk, lruk_op'.frame_id) \ {lruk_op'.frame_id} :
            IndexOf(recency, g) < IndexOf(recency, lruk_op'.frame_id)

C12_VictimLeastRecent == [][C12_Step]_vars

\* C13: Size() is the number of tracked frames whose evictable flag is true.
C13_SizeCountsEvictable == Size(lruk) = Cardinality(Evictable(lruk))

\* An eviction has left one evictable frame behind.
C13_Witness ==
    /\ status = "run"
    /\ lruk_op.name = "Evict" /\ lruk_op.found
    /\ Size(lruk) = 1
    /\ Cardinality(Tracked(lruk)) = 2

\* C14: a tracked frame is in the history list exactly when it has fewer than
\* k recorded accesses and in the cache list exactly when it has k or more.
C14_ListByCount ==
    \A f \in Tracked(lruk) :
        /\ InList(lruk.hist_list, f) <=> lruk.node_store[f].k < lruk.k
        /\ InList(lruk.cache_list, f) <=> lruk.node_store[f].k >= lruk.k

\* C15: SetEvictable on a frame that is not tracked changes nothing and
\* returns with latch_ released.
C15_Step ==
    (/\ Returned("SetEvictable") /\ lruk_op'.exc = "none"
     /\ lruk_op'.frame_id \notin Tracked(lruk)) =>
        /\ Tracked(lruk') = Tracked(lruk)
        /\ lruk'.hist_list = lruk.hist_list /\ lruk'.cache_list = lruk.cache_list
        /\ lruk'.node_store = lruk.node_store
        /\ Size(lruk') = Size(lruk)
        /\ ~lruk'.latch

C15_UntrackedSetEvictableNoOp == [][C15_Step]_vars

\* C16: RecordAccess of a frame id >= num_frames fails with an error, and no
\* more than num_frames frames are tracked.
C16_InvalidFrameFails ==
    /\ (lruk_op.name = "RecordAccess" /\ lruk_op.frame_id >= lruk.replacer_size)
           => lruk_op.exc = "invalid_argument"
    /\ Cardinality(Tracked(lruk)) <= lruk.replacer_size

(***************************************************************************)
(* The replacer under concurrent calls.  What a call does between          *)
(* latch_.lock() and latch_.unlock() is one step: no other call gets past  *)
(* latch_.lock() meanwhile.  Evict goes on after latch_.unlock() (lines    *)
(* 382-387); each of its two writes there is a step of its own.  A thread  *)
(* that finds latch_ locked waits.                                         *)
(***************************************************************************)
\* The step of thread t that runs a call from lock to unlock (or to the
\* return or throw that leaves latch_ locked), with outcome o.
Replacer_Locked(t, o) ==
    \E abort \in (IF o.ub THEN BOOLEAN ELSE {FALSE}) :
        /\ status' = IF abort THEN "abort" ELSE "run"
        /\ lruk' = IF abort THEN lruk ELSE o.r
        /\ calls' = [calls EXCEPT ![t] = @ - 1]
        /\ UNCHANGED <<bpm_vars, op, watch, obs_vars, ht_vars, pc, loc, holder,
                       lruk_op, recency, guard_vars, more_vars>>

RecordAccess_Call(t) ==
    /\ Idle(t) /\ ~lruk.latch
    /\ \E frame_id \in ReplacerFrameIds :
        /\ frame_id <= ReplacerFrames => lruk.node_store[frame_id].k < ReplacerMaxCount
        /\ Replacer_Locked(t, RecordAccess(lruk, frame_id))

SetEvictable_Call(t) ==
    /\ Idle(t) /\ ~lruk.latch
    /\ \E frame_id \in ReplacerFrameIds, set_evictable \in BOOLEAN :
        Replacer_Locked(t, SetEvictable(lruk, frame_id, set_evictable))

Remove_Call(t) ==
    /\ Idle(t) /\ ~lruk.latch
    /\ \E frame_id \in 0 .. ReplacerFrames :
        Replacer_Locked(t, Remove(lruk, frame_id))

\* LRUKReplacer::Evict, lines 351-382 and the test of line 385.
Evict_Locked(t) ==
    /\ Idle(t) /\ ~lruk.latch
    /\ LET e == EvictFromLists(lruk)
       IN  /\ lruk' = e.r
           /\ pc' = [pc EXCEPT ![t] = IF e.victim = NoFrame THEN "idle" ELSE "erase_node"]
           /\ loc' = [loc EXCEPT ![t] = IF e.victim = NoFrame THEN NoCall
                                        ELSE [NoCall EXCEPT !.name = "Evict",
                                                            !.frame_id = e.victim]]
           /\ calls' = [calls EXCEPT ![t] = @ - 1]
    /\ UNCHANGED <<bpm_vars, status, op, watch, obs_vars, ht_vars, holder, lruk_op, recency,
                   guard_vars, more_vars>>

\* LRUKReplacer::Evict, line 386
Evict_EraseNode(t) ==
    /\ status = "run" /\ pc[t] = "erase_node"
    /\ lruk' = EvictEraseNode(lruk, loc[t].frame_id)
    /\ pc' = [pc EXCEPT ![t] = "decr_size"]
    /\ UNCHANGED <<bpm_vars, status, op, watch, obs_vars, ht_vars, loc, holder, calls,
                   lruk_op, recency, guard_vars, more_vars>>

\* LRUKReplacer::Evict, lines 387-388
Evict_DecrSize(t) ==
    /\ status = "run" /\ pc[t] = "decr_size"
    /\ lruk' = EvictDecrSize(lruk)
    /\ pc' = [pc EXCEPT ![t] = "idle"]
    /\ loc' = [loc EXCEPT ![t] = NoCall]
    /\ UNCHANGED <<bpm_vars, status, op, watch, obs_vars, ht_vars, holder, calls,
                   lruk_op, recency, guard_vars, more_vars>>

InitReplacerConc ==
    /\ InitPool(MaxK)
    /\ NoTableCalls
    /\ NoGuards
    /\ NoMore
    /\ InitThreads(ReplacerCalls)
    /\ status = "run"
    /\ watch = "none"
    /\ op = Call("None", INVALID_PAGE_ID, FALSE)
    /\ owed = [p \in PageIds |-> DataVals]
    /\ undeclared = [p \in PageIds |-> FALSE]
    /\ InitReplacer(NewReplacer(ReplacerFrames, MaxK))

NextReplacerConc ==
    \E t \in Threads :
        \/ RecordAccess_Call(t)
        \/ SetEvictable_Call(t)
        \/ Remove_Call(t)
        \/ Evict_Locked(t)
        \/ Evict_EraseNode(t)
        \/ Evict_DecrSize(t)

\* The replacer called by NumThreads threads at once.
SpecReplacerConc == InitReplacerConc /\ [][NextReplacerConc]_vars

\* C17: whenever no call is in progress, curr_size_ is the number of tracked
\* evictable frames and a frame is in a list iff it is in the node store.
C17_ConsistentWhenUnlocked ==
    (~lruk.latch /\ \A t \in Threads : pc[t] = "idle") =>
        /\ Size(lruk) = Cardinality(Evictable(lruk))
        /\ \A f \in DOMAIN lruk.node_store :
               (InList(lruk.hist_list, f) \/ InList(lruk.cache_list, f)) <=> f \in Tracked(lruk)

(***************************************************************************)
(* The guards used by one thread.  An operation that waits for a latch its *)
(* own thread holds never returns (or fails in the lock, where the build   *)
(* detects it).                                                            *)
(***************************************************************************)
GuardWorld ==
    [guards |-> guards, pins |-> guard_pins, latch |-> guard_latch,
     log |-> <<>>, stuck |-> FALSE]

\* The step of guard operation name on objects g and h that ends in world w.
GuardApply(w, name, g, h) ==
    \E abort \in (IF w.stuck THEN BOOLEAN ELSE {FALSE}) :
        /\ status' = IF abort THEN "abort" ELSE IF w.stuck THEN "hang" ELSE "run"
        /\ guards' = IF w.stuck THEN guards ELSE w.guards
        /\ guard_pins' = w.pins
        /\ guard_latch' = w.latch
        /\ guard_op' = IF w.stuck THEN guard_op
                       ELSE GuardCall(name, g, h, guards[g].last, w.log)
        /\ UNCHANGED <<bpm_vars, op, watch, obs_vars, thread_vars, ht_vars, rep_vars, more_vars>>

FetchPageBasicOp ==
    /\ status = "run"
    /\ \E g \in GuardIds, page \in GuardPages \cup {nullptr} :
        /\ guards[g].kind = "none"
        /\ GuardApply(FetchPageBasic(GuardWorld, g, page), "FetchPageBasic", g, g)

FetchPageReadOp ==
    /\ status = "run"
    /\ \E g \in GuardIds, page \in GuardPages \cup {nullptr} :
        /\ guards[g].kind = "none"
        /\ GuardApply(FetchPageRead(GuardWorld, g, page), "FetchPageRead", g, g)

FetchPageWriteOp ==
    /\ status = "run"
    /\ \E g \in GuardIds, page \in GuardPages \cup {nullptr} :
        /\ guards[g].kind = "none"
        /\ GuardApply(FetchPageWrite(GuardWorld, g, page), "FetchPageWrite", g, g)

MoveConstructOp ==
    /\ status = "run"
    /\ \E g \in GuardIds, h \in GuardIds :
        /\ g # h /\ guards[g].kind = "none" /\ guards[h].kind # "none"
        /\ GuardApply(BasicMoveConstruct(GuardWorld, g, h), "MoveConstruct", g, h)

MoveAssignOp ==
    /\ status = "run"
    /\ \E g \in GuardIds, h \in GuardIds :
        /\ guards[g].kind # "none" /\ guards[h].kind = guards[g].kind
        /\ GuardApply(GuardMoveAssign(GuardWorld, g, h), "MoveAssign", g, h)

DropOp ==
    /\ status = "run"
    /\ \E g \in GuardIds :
        /\ guards[g].kind # "none"
        /\ GuardApply(GuardDrop(GuardWorld, g), "Drop", g, g)

DestroyOp ==
    /\ status = "run"
    /\ \E g \in GuardIds :
        /\ guards[g].kind # "none"
        /\ GuardApply(GuardDestroy(GuardWorld, g), "Destroy", g, g)

UpgradeReadOp ==
    /\ status = "run"
    /\ \E g \in GuardIds, h \in GuardIds :
        /\ g # h /\ guards[g].kind = "basic" /\ guards[h].kind = "none"
        /\ GuardApply(UpgradeRead(GuardWorld, g, h), "UpgradeRead", g, h)

UpgradeWriteOp ==
    /\ status = "run"
    /\ \E g \in GuardIds, h \in GuardIds :
        /\ g # h /\ guards[g].kind = "basic" /\ guards[h].kind = "none"
        /\ GuardApply(UpgradeWrite(GuardWorld, g, h), "UpgradeWrite", g, h)

AsMutOp ==
    /\ status = "run"
    /\ \E g \in GuardIds :
        /\ guards[g].kind \in {"basic", "write"} /\ guards[g].page # nullptr
        /\ GuardApply(AsMut(GuardWorld, g), "AsMut", g, g)

InitGuardCalls ==
    /\ InitPool(MaxK)
    /\ NoTableCalls
    /\ NoReplacerCalls
    /\ InitThreads(0)
    /\ status = "run"
    /\ watch = "none"
    /\ op = Call("None", INVALID_PAGE_ID, FALSE)
    /\ owed = [p \in PageIds |-> DataVals]
    /\ undeclared = [p \in PageIds |-> FALSE]
    /\ InitGuards
    /\ NoMore

NextGuards ==
    \/ FetchPageBasicOp
    \/ FetchPageReadOp
    \/ FetchPageWriteOp
    \/ MoveConstructOp
    \/ MoveAssignOp
    \/ DropOp
    \/ DestroyOp
    \/ UpgradeReadOp
    \/ UpgradeWriteOp
    \/ AsMutOp

\* The page guards fetched, moved, upgraded, dropped and destroyed.
SpecGuards == InitGuardCalls /\ [][NextGuards]_vars

(***************************************************************************)
(* Claims about the page guards                                            *)
(***************************************************************************)
\* The guard objects that hold a pin of page p, and those of one kind.
Holders(gs, p) == {g \in GuardIds : gs[g].kind # "none" /\ gs[g].bpm /\ gs[g].page = p}

HoldersOfKind(gs, p, kind) == {g \in Holders(gs, p) : gs[g].kind = kind}

\* How many times an operation made a call on page p.
CallsOn(log, call, p) ==
    Cardinality({i \in 1 .. Len(log) : log[i].call = call /\ log[i].page = p})

\* A guard operation returned in this step.
GuardStep == status' = "run" /\ guard_vars' # guard_vars

\* The pins and latches of every page are those of the guards that hold it.
C18_HeldByGuards ==
    status = "run" =>
        \A p \in GuardPages :
            /\ guard_pins[p] = Cardinality(Holders(guards, p))
            /\ guard_latch[p].readers = Cardinality(HoldersOfKind(guards, p, "read"))
            /\ guard_latch[p].writer <=> HoldersOfKind(guards, p, "write") # {}
            /\ Cardinality(HoldersOfKind(guards, p, "write")) <= 1

\* An operation calls UnpinPage (RUnlatch, WUnlatch) on a page once for each
\* guard that gives the page up, and a drop or destruction of a guard that
\* holds no page calls nothing.
C18_Step ==
    GuardStep =>
        /\ \A p \in GuardPages :
            /\ CallsOn(guard_op'.log, "UnpinPage", p) =
                   Cardinality(Holders(guards, p)) + CallsOn(guard_op'.log, "FetchPage", p)
                       - Cardinality(Holders(guards', p))
            /\ CallsOn(guard_op'.log, "RUnlatch", p) =
                   Cardinality(HoldersOfKind(guards, p, "read"))
                       + CallsOn(guard_op'.log, "RLatch", p)
                       - Cardinality(HoldersOfKind(guards', p, "read"))
            /\ CallsOn(guard_op'.log, "WUnlatch", p) =
                   Cardinality(HoldersOfKind(guards, p, "write"))
                       + CallsOn(guard_op'.log, "WLatch", p)
                       - Cardinality(HoldersOfKind(guards', p, "write"))
        /\ (/\ guard_op'.name \in {"Drop", "Destroy"}
            /\ guard_op'.was \in {"MoveSource", "Drop", "UpgradeSource"})
               => guard_op'.log = <<>>

\* C18: under any sequence of move construction, move assignment, Drop and
\* destruction each pin is released by exactly one UnpinPage call and each
\* latch exactly once; a moved-from or dropped guard releases nothing.
C18_ReleasedExactlyOnce == []C18_HeldByGuards /\ [][C18_Step]_vars

\* A read guard that was moved from has been destroyed, while the guard it
\* was moved to holds the page with its one pin and its one latch.
C18_Witness ==
    /\ status = "run"
    /\ guard_op.name = "Destroy" /\ guard_op.was = "MoveSource" /\ guard_op.log = <<>>
    /\ \E g \in GuardIds :
        /\ guards[g].kind = "read" /\ guards[g].last = "MoveTarget"
        /\ guards[g].page # nullptr
        /\ guard_pins[guards[g].page] = 1
        /\ guard_latch[guards[g].page].readers = 1

\* The write guards that give up the page they hold in this step: they held
\* it before, do not hold it after, and were not moved from.
GivesUp(g) ==
    /\ guards[g].kind = "write" /\ guards[g].bpm /\ guards[g].page # nullptr
    /\ ~(guards'[g].kind = "write" /\ guards'[g].bpm /\ guards'[g].page = guards[g].page)
    /\ guards'[g].last # "MoveSource"

\* C19: a write guard that gives up its page by Drop, destruction or by being
\* assigned to releases the writer latch and then calls UnpinPage with
\* dirty = true.
C19_Step ==
    GuardStep =>
        \A g \in GuardIds :
            GivesUp(g) =>
                guard_op'.log = <<Event("WUnlatch", guards[g].page, FALSE),
                                  Event("UnpinPage", guards[g].page, TRUE)>>

C19_WriteGuardUnpinsDirty == [][C19_Step]_vars

\* The latch call and the guard kind of an upgrade.
LatchOf(name) == IF name = "UpgradeRead" THEN "RLatch" ELSE "WLatch"

KindOf(name) == IF name = "UpgradeRead" THEN "read" ELSE "write"

UnlatchOf(kind) == IF kind = "read" THEN "RUnlatch" ELSE "WUnlatch"

\* An upgrade takes the latch and moves the pin to the returned guard: no pin
\* count changes and the basic guard holds nothing.
C20_UpgradeStep ==
    (GuardStep /\ guard_op'.name \in {"UpgradeRead", "UpgradeWrite"}) =>
        LET g == guard_op'.g
            h == guard_op'.h
            page == guards[g].page
        IN  /\ guard_pins' = guard_pins
            /\ ~guards'[g].bpm /\ guards'[g].page = nullptr
            /\ guards'[h].kind = KindOf(guard_op'.name)
            /\ guards'[h].bpm = guards[g].bpm /\ guards'[h].page = page
            /\ guard_op'.log = IF page = nullptr THEN <<>>
                               ELSE <<Event(LatchOf(guard_op'.name), page, FALSE)>>

\* Dropping or destroying the upgraded basic guard calls nothing; dropping or
\* destroying the returned guard unlatches and unpins its page once.
C20_ReleaseStep ==
    (GuardStep /\ guard_op'.name \in {"Drop", "Destroy"}) =>
        LET g == guard_op'.g
            page == guards[g].page
        IN  /\ guard_op'.was = "UpgradeSource" => guard_op'.log = <<>>
            /\ (guard_op'.was = "UpgradeResult" /\ page # nullptr) =>
                /\ Len(guard_op'.log) = 2
                /\ guard_op'.log[1] = Event(UnlatchOf(guards[g].kind), page, FALSE)
                /\ guard_op'.log[2].call = "UnpinPage" /\ guard_op'.log[2].page = page
                /\ guard_pins' = [guard_pins EXCEPT ![page] = @ - 1]

\* C20: UpgradeRead and UpgradeWrite acquire the latch and transfer the pin
\* without changing the pin count; the basic guard is consumed and the
\* returned guard's release unlatches and unpins the page exactly once.
C20_UpgradeTransfersPin == [][C20_UpgradeStep /\ C20_ReleaseStep]_vars

\* The guard an upgrade returned has been destroyed, releasing its page,
\* while the basic guard it came from is still alive.
C20_Witness ==
    /\ status = "run"
    /\ guard_op.name = "Destroy" /\ guard_op.was = "UpgradeResult" /\ Len(guard_op.log) = 2
    /\ \E g \in GuardIds : guards[g].kind = "basic" /\ guards[g].last = "UpgradeSource"
    /\ \A p \in GuardPages : guard_pins[p] = 0

\* The guards that release in this step the page of a basic guard that was
\* dirty when it was upgraded: they held it before, do not hold it after, and
\* were not moved from.
ReleasesUpgraded(g) ==
    /\ guards[g].kind \in {"read", "write"} /\ guards[g].bpm /\ guards[g].page # nullptr
    /\ guards[g].from_dirty
    /\ ~(guards'[g].kind = guards[g].kind /\ guards'[g].bpm /\ guards'[g].page = guards[g].page)
    /\ guards'[g].last # "MoveSource"

C33_Step ==
    GuardStep =>
        \A g \in GuardIds :
            ReleasesUpgraded(g) =>
                \E i \in 1 .. Len(guard_op'.log) :
                    guard_op'.log[i] = Event("UnpinPage", guards[g].page, TRUE)

\* C33: when a basic guard whose is_dirty_ was set is upgraded by UpgradeRead
\* or UpgradeWrite, the release of the guard that holds the upgraded page
\* (Drop, destruction, being assigned to) calls UnpinPage with dirty = true.
C33_UpgradeKeepsDirty == [][C33_Step]_vars

(***************************************************************************)
(* The directory page called on its own: Init with any max_depth up to     *)
(* HTABLE_DIRECTORY_MAX_DEPTH, then any calls whose assert(bucket_idx <    *)
(* Size()) holds and whose slot exists.                                    *)
(***************************************************************************)
old_vars == <<bpm_vars, thread_vars, status, op, watch, obs_vars, ht_vars, rep_vars, guard_vars>>

InitOld ==
    /\ InitPool(MaxK)
    /\ NoTableCalls
    /\ NoReplacerCalls
    /\ InitGuards
    /\ InitThreads(0)
    /\ status = "run"
    /\ watch = "none"
    /\ op = Call("None", INVALID_PAGE_ID, FALSE)
    /\ owed = [p \in PageIds |-> DataVals]
    /\ undeclared = [p \in PageIds |-> FALSE]

DirectoryDepths == 0 .. DirectoryArrayDepth
DirectoryPageIds == 0 .. 1
CallableSlots == {i \in DirectorySlots : i < DirectoryPage_Size(dir)}

DirectoryApply(d, name, bucket_idx, ub) ==
    /\ dir' = d
    /\ dir_op' = DirectoryCall(name, bucket_idx, ub)
    /\ UNCHANGED <<old_vars, bucket_vars, sched_vars, latch_vars>>

DirectoryInitOp ==
    \E max_depth \in DirectoryDepths :
        DirectoryApply(DirectoryPage_Init(max_depth), "Init", 0, FALSE)

\* Stores past the arrays land in local_depths_ (it follows bucket_page_ids_
\* in the page) and behind the page: local_depths_ may hold anything after.
IncrGlobalDepthOp ==
    IF GrowsPastArrays(dir)
    THEN \E ld \in [DirectorySlots -> DirectoryDepths] :
             DirectoryApply([IncrGlobalDepth(dir) EXCEPT !.local_depths_ = ld],
                            "IncrGlobalDepth", 0, TRUE)
    ELSE DirectoryApply(IncrGlobalDepth(dir), "IncrGlobalDepth", 0, FALSE)

DecrGlobalDepthOp == DirectoryApply(DecrGlobalDepth(dir), "DecrGlobalDepth", 0, FALSE)

IncrLocalDepthOp ==
    \E i \in CallableSlots : DirectoryApply(IncrLocalDepth(dir, i), "IncrLocalDepth", i, FALSE)

DecrLocalDepthOp ==
    \E i \in CallableSlots : DirectoryApply(DecrLocalDepth(dir, i), "DecrLocalDepth", i, FALSE)

SetBucketPageIdOp ==
    \E i \in CallableSlots, bucket_page_id \in DirectoryPageIds :
        DirectoryApply(SetBucketPageId(dir, i, bucket_page_id), "SetBucketPageId", i, FALSE)

InitDirectoryCalls ==
    /\ InitOld
    /\ NoBucketCalls
    /\ InitScheduler
    /\ InitTableThreads(0)
    /\ \E max_depth \in DirectoryDepths : InitDirectory(max_depth)

NextDirectory ==
    \/ DirectoryInitOp
    \/ IncrGlobalDepthOp
    \/ DecrGlobalDepthOp
    \/ IncrLocalDepthOp
    \/ DecrLocalDepthOp
    \/ SetBucketPageIdOp

SpecDirectory == InitDirectoryCalls /\ [][NextDirectory]_vars

\* C24: in every state reached through Init, IncrGlobalDepth,
\* DecrGlobalDepth, IncrLocalDepth and DecrLocalDepth, global_depth is in
\* 0 .. max_depth and every slot below 2^global_depth has a local depth of
\* at most global_depth.
C24_DepthsBounded ==
    /\ dir.global_depth_ >= 0
    /\ dir.global_depth_ <= dir.max_depth_
    /\ \A i \in CallableSlots : dir.local_depths_[i] <= dir.global_depth_

C28_Step ==
    (dir_op'.name = "IncrGlobalDepth" /\ dir.global_depth_ < dir.max_depth_) =>
        LET old == 2 ^ dir.global_depth_
        IN  /\ dir'.global_depth_ = dir.global_depth_ + 1
            /\ \A i \in 0 .. (old - 1) :
                   /\ dir'.bucket_page_ids_[i] = dir.bucket_page_ids_[i]
                   /\ dir'.local_depths_[i] = dir.local_depths_[i]
                   /\ dir'.bucket_page_ids_[i + old] = dir.bucket_page_ids_[i]
                   /\ dir'.local_depths_[i + old] = dir.local_depths_[i]
            /\ \A h \in 0 .. (2 ^ HashBits - 1) :
                   /\ GetBucketPageId(dir', HashToBucketIndex(dir', h))
                        = GetBucketPageId(dir, HashToBucketIndex(dir, h))
                   /\ GetLocalDepth(dir', HashToBucketIndex(dir', h))
                        = GetLocalDepth(dir, HashToBucketIndex(dir, h))

\* C28: when global_depth < max_depth, IncrGlobalDepth leaves the entries
\* below 2^global_depth as they were, copies page id and local depth of
\* slot i to slot i + 2^global_depth, and every hash finds the same page id
\* and local depth at HashToBucketIndex after the call as before it.
C28_GrowthMovesNoBucket == [][C28_Step]_vars

\* The directory has grown from depth 1 to depth 2 over two distinct buckets
\* of local depth 1.
C28_Witness ==
    /\ dir_op.name = "IncrGlobalDepth"
    /\ dir.global_depth_ = 2 /\ dir.max_depth_ = 2
    /\ dir.bucket_page_ids_[0] = 0 /\ dir.bucket_page_ids_[1] = 1
    /\ dir.bucket_page_ids_[2] = 0 /\ dir.bucket_page_ids_[3] = 1
    /\ \A i \in DirectorySlots : dir.local_depths_[i] = 1

(***************************************************************************)
(* The bucket page called on its own: Init(max_size) with max_size below   *)
(* the number of slots, then Insert, Remove, Lookup and Init again.        *)
(***************************************************************************)
BucketSizes == 1 .. (BucketMaxSize + 1)

BucketApply(b, name, key, ok, value, aborted) ==
    /\ ~bucket_page_op.aborted
    /\ bucket_page' = b
    /\ bucket_page_op' = BucketCall(name, key, ok, value, aborted)
    /\ UNCHANGED <<old_vars, dir_vars, sched_vars, latch_vars>>

BucketInitOp ==
    \E max_size \in BucketSizes :
        BucketApply(BucketPage_Init(bucket_page.array_, max_size), "Init", 0, TRUE, 0, FALSE)

BucketInsertOp ==
    \E key \in Keys, value \in Values :
        BucketApply(BucketPage_Insert(bucket_page, key, value).b, "Insert", key,
                    BucketPage_Insert(bucket_page, key, value).ok, value, FALSE)

\* With asserts compiled in, a failed assert ends the process; without
\* them RemoveAt goes on.
BucketRemoveOp ==
    \E key \in Keys, aborted \in BOOLEAN :
        /\ aborted => BucketPage_Remove(bucket_page, key).failed
        /\ BucketApply(IF aborted THEN bucket_page ELSE BucketPage_Remove(bucket_page, key).b, "Remove", key,
                       BucketPage_Remove(bucket_page, key).ok, 0, aborted)

BucketLookupOp ==
    \E key \in Keys :
        BucketApply(bucket_page, "Lookup", key, BucketPage_Lookup(bucket_page, key).found,
                    BucketPage_Lookup(bucket_page, key).value, FALSE)

InitBucketCalls ==
    /\ InitOld
    /\ NoDirectoryCalls
    /\ InitScheduler
    /\ InitTableThreads(0)
    /\ \E max_size \in BucketSizes : InitBucket(max_size)

NextBucket ==
    \/ BucketInitOp
    \/ BucketInsertOp
    \/ BucketRemoveOp
    \/ BucketLookupOp

SpecBucket == InitBucketCalls /\ [][NextBucket]_vars

\* The keys of the first size_ entries.
LiveKeys(b) == {KeyAt(b, i) : i \in 0 .. (b.size_ - 1)}

C25_Sorted ==
    /\ bucket_page.size_ >= 0
    /\ bucket_page.size_ <= bucket_page.max_size_
    /\ \A i \in 0 .. (bucket_page.size_ - 2) : KeyAt(bucket_page, i) < KeyAt(bucket_page, i + 1)

C25_Step ==
    (bucket_page_op'.name = "Insert" /\ IsFull(bucket_page)) => (~bucket_page_op'.ok /\ bucket_page' = bucket_page)

\* C25: after any Insert / Remove calls following Init(max_size) the first
\* size entries are in strictly increasing key order and size <= max_size;
\* Insert on a full bucket returns false and changes nothing.
C25_SortedAndBounded == []C25_Sorted /\ [][C25_Step]_vars

\* A full bucket of two sorted entries has just rejected an Insert.
C25_Witness ==
    /\ bucket_page_op.name = "Insert" /\ ~bucket_page_op.ok
    /\ bucket_page.size_ = 2 /\ bucket_page.max_size_ = 2
    /\ bucket_page_op.key \notin LiveKeys(bucket_page)

C29_Step ==
    /\ bucket_page_op'.name = "Lookup" => (bucket_page_op'.ok <=> bucket_page_op'.key \in LiveKeys(bucket_page))
    /\ bucket_page_op'.name = "Insert" =>
           (bucket_page_op'.ok <=> (~IsFull(bucket_page) /\ bucket_page_op'.key \notin LiveKeys(bucket_page)))
    /\ bucket_page_op'.name = "Remove" =>
           (~bucket_page_op'.aborted /\ (bucket_page_op'.ok <=> bucket_page_op'.key \in LiveKeys(bucket_page)))

\* C29: Lookup, the duplicate check of Insert, and Remove decide whether the
\* key is present from the first size entries alone; a slot at index >= size
\* never changes what they return.
C29_OnlyLiveEntriesDecide == [][C29_Step]_vars

(***************************************************************************)
(* The hash table with directory_max_depth_ up to DeepDirectoryDepth, where *)
(* a split can be followed by another split of the same Insert call, under  *)
(* Insert and GetValue calls.                                               *)
(***************************************************************************)
InitHTDeep ==
    /\ InitPool(MaxK)
    /\ NoReplacerCalls
    /\ NoGuards
    /\ NoMore
    /\ InitThreads(0)
    /\ status = "run"
    /\ watch = "table"
    /\ op = Call("None", INVALID_PAGE_ID, FALSE)
    /\ owed = [p \in PageIds |-> DataVals]
    /\ undeclared = [p \in PageIds |-> FALSE]
    /\ \E directory_max_depth \in 0 .. DeepDirectoryDepth : InitTable(directory_max_depth)

NextHTDeep ==
    \/ InsertOp
    \/ GetValueOp

SpecHTDeep == InitHTDeep /\ [][NextHTDeep]_vars

\* The local depths HashTable_Insert meets: at most max_depth retries, each
\* at a greater local depth than the round before, none above max_depth.
BoundedRounds(depths) ==
    /\ Len(depths) - 1 <= directory_max_depth_
    /\ \A i \in 1 .. (Len(depths) - 1) : depths[i] < depths[i + 1]
    /\ \A i \in 1 .. Len(depths) : depths[i] <= directory_max_depth_

C30_Step ==
    ht_op'.name = "Insert" =>
        \A value \in Values : BoundedRounds(HashTable_Insert(Table, ht_op'.key, value).depths)

\* C30: Insert terminates: every retry round finds the key's bucket at a
\* strictly greater local depth, which never exceeds max_depth, so one
\* Insert call makes at most max_depth split-and-retry rounds.
C30_InsertRoundsBounded == [][C30_Step]_vars

\* An Insert has split twice in a row: the first split moved no entry.
C30_Witness ==
    /\ ht_op.name = "Insert" /\ ht_op.ret
    /\ table_next_page_id = 5
    /\ \E d \in DOMAIN directory_pages :
           /\ directory_pages[d].global_depth_ = 2
           /\ directory_pages[d].local_depths_[1] = 1
           /\ \E p \in DOMAIN bucket_pages :
                  directory_pages[d].bucket_page_ids_[1] = p /\ IsEmpty(bucket_pages[p])

\* The step of thread t runs a future.get(): FlushPage's write (line 251),
\* the write-back of a dirty frame (lines 129 and 186), FetchPage's read
\* (line 205).
AwaitsDisk(t) ==
    \/ /\ pc[t] = "locked" /\ pc'[t] = "idle"
       /\ loc[t].name = "FlushPage" /\ Resident(Pool, loc[t].page_id)
    \/ /\ pc[t] = "write_back" /\ pc'[t] = "install"
       /\ pages_[loc[t].frame_id].is_dirty
    \/ /\ pc[t] = "touch" /\ pc'[t] = "idle"
       /\ loc[t].name = "FetchPage"

C26_Step == \A t \in Threads : AwaitsDisk(t) => holder # t

\* C26: no pool operation waits for the completion of a disk request while
\* its thread holds the pool's mutex latch_.
C26_NoWaitUnderMutex == [][C26_Step]_vars

(***************************************************************************)
(* The disk scheduler: clients call Schedule, the worker thread runs       *)
(* StartWorkerThread, the thread it forks runs ProcessDiskRequest, and the *)
(* owner destroys the scheduler at any time.                               *)
(***************************************************************************)
RequestIds == 1 .. MaxRequests

SchedulerStep == UNCHANGED <<old_vars, dir_vars, bucket_vars, latch_vars>>

\* DiskScheduler::Schedule
ScheduleOp ==
    /\ destructor = "none"
    /\ Len(requests) < MaxRequests
    /\ \E is_write \in BOOLEAN, page_id \in PageIds :
        requests' = Append(requests,
                           [is_write_ |-> is_write, page_id_ |-> page_id,
                            data_ |-> IF is_write THEN Len(requests) + 1 ELSE 0,
                            state |-> "queued", fulfilled |-> 0])
    /\ request_queue_' = Put(request_queue_, Len(requests) + 1)
    /\ UNCHANGED <<background_thread_, device, destructor>>
    /\ SchedulerStep

\* StartWorkerThread, lines 365-367: Get returns; nullopt ends the loop,
\* a request gets a thread of its own.
Worker_Get ==
    /\ background_thread_.pc = "get"
    /\ request_queue_ # <<>>
    /\ request_queue_' = Get(request_queue_).q
    /\ LET r == Get(request_queue_).element
       IN  IF r = nullopt
           THEN /\ background_thread_' = WorkerAt("exited", nullopt, "none")
                /\ UNCHANGED requests
           ELSE /\ background_thread_' = WorkerAt("join", r, "start")
                /\ requests' = [requests EXCEPT ![r].state = "forked"]
    /\ UNCHANGED <<device, destructor>>
    /\ SchedulerStep

\* ProcessDiskRequest, lines 350-355: the call into the disk manager starts
Process_Start ==
    /\ background_thread_.process = "start"
    /\ background_thread_' = [background_thread_ EXCEPT !.process = "io"]
    /\ requests' = [requests EXCEPT ![background_thread_.r].state = "io"]
    /\ UNCHANGED <<request_queue_, device, destructor>>
    /\ SchedulerStep

\* ... and returns: the bytes are on the device (write) or in the caller's
\* buffer (read).
Process_IO ==
    /\ background_thread_.process = "io"
    /\ background_thread_' = [background_thread_ EXCEPT !.process = "set_value"]
    /\ device' = DiskIO(device, requests[background_thread_.r])
    /\ requests' = [requests EXCEPT
                       ![background_thread_.r].state = "performed",
                       ![background_thread_.r].data_ =
                           IF requests[background_thread_.r].is_write_ THEN @
                           ELSE device[requests[background_thread_.r].page_id_]]
    /\ UNCHANGED <<request_queue_, destructor>>
    /\ SchedulerStep

\* ProcessDiskRequest, line 356
Process_SetValue ==
    /\ background_thread_.process = "set_value"
    /\ background_thread_' = [background_thread_ EXCEPT !.process = "done"]
    /\ requests' = [requests EXCEPT ![background_thread_.r].fulfilled = SetValue(@)]
    /\ UNCHANGED <<request_queue_, device, destructor>>
    /\ SchedulerStep

\* StartWorkerThread, line 368
Worker_Join ==
    /\ background_thread_.pc = "join"
    /\ Join(background_thread_.process)
    /\ background_thread_' = WorkerAt("get", nullopt, "none")
    /\ UNCHANGED <<request_queue_, requests, device, destructor>>
    /\ SchedulerStep

\* ~DiskScheduler, line 341
Destructor_Put ==
    /\ destructor = "none"
    /\ request_queue_' = Put(request_queue_, nullopt)
    /\ destructor' = "join"
    /\ UNCHANGED <<background_thread_, requests, device>>
    /\ SchedulerStep

\* ~DiskScheduler, lines 342-344: join returns when the worker has left
\* StartWorkerThread.
Destructor_Join ==
    /\ destructor = "join"
    /\ background_thread_.pc = "exited"
    /\ destructor' = "returned"
    /\ UNCHANGED <<request_queue_, background_thread_, requests, device>>
    /\ SchedulerStep

InitSchedulerCalls ==
    /\ InitOld
    /\ NoDirectoryCalls
    /\ NoBucketCalls
    /\ InitTableThreads(0)
    /\ InitScheduler

WorkerNext ==
    \/ Worker_Get
    \/ Process_Start
    \/ Process_IO
    \/ Process_SetValue
    \/ Worker_Join

NextScheduler ==
    \/ ScheduleOp
    \/ WorkerNext
    \/ Destructor_Put
    \/ Destructor_Join

SpecScheduler == InitSchedulerCalls /\ [][NextScheduler]_vars

\* The worker thread, the thread it forks and the thread in the destructor
\* are scheduled as long as they can run.
SpecSchedulerLive ==
    /\ InitSchedulerCalls
    /\ [][NextScheduler]_vars
    /\ WF_vars(WorkerNext)
    /\ WF_vars(Destructor_Join)

Started(i) == requests[i].state \in {"io", "performed"}

Completed(i) ==
    /\ i <= Len(requests)
    /\ requests[i].state = "performed"
    /\ requests[i].fulfilled = 1

\* The writes to page p whose device I/O is finished.
WritesDone(p) ==
    {i \in DOMAIN requests :
        requests[i].is_write_ /\ requests[i].page_id_ = p /\ requests[i].state = "performed"}

\* C21: requests are performed one at a time in the order of the Schedule
\* calls: when the device I/O of a request has started, every request
\* scheduled before it has finished its I/O and fulfilled its handle; so a
\* page holds the bytes of the last-scheduled write performed on it.
C21_OneAtATimeInOrder ==
    /\ \A i, j \in DOMAIN requests : (i < j /\ Started(j)) => Completed(i)
    /\ \A p \in PageIds :
           WritesDone(p) # {} => device[p] = requests[Max(WritesDone(p))].data_

\* Three requests are done, two of them writes to the same page.
C21_Witness ==
    /\ Len(requests) = 3
    /\ \A i \in DOMAIN requests : Completed(i)
    /\ requests[1].is_write_ /\ requests[3].is_write_
    /\ requests[1].page_id_ = requests[3].page_id_
    /\ ~requests[2].is_write_ /\ requests[2].page_id_ = requests[1].page_id_
    /\ requests[2].data_ = 1

\* C22: a request scheduled before the destructor is called is in the end
\* performed and its handle fulfilled, once and never twice; the destructor,
\* once called, returns, and when it returns the worker has left its loop and
\* every request put in the queue before the sentinel is done.
C22_AllRequestsDone ==
    /\ [](\A i \in DOMAIN requests : requests[i].fulfilled <= 1)
    /\ \A i \in RequestIds : (i <= Len(requests)) ~> Completed(i)
    /\ (destructor = "join") ~> (destructor = "returned")
    /\ [](destructor = "returned" =>
            /\ background_thread_.pc = "exited"
            /\ \A i \in DOMAIN requests : Completed(i))

\* The destructor has returned after MaxRequests requests were scheduled.
C22_Witness ==
    /\ destructor = "returned"
    /\ Len(requests) = MaxRequests
    /\ \A i \in DOMAIN requests : Completed(i)

(***************************************************************************)
(* The hash table called by NumThreads threads at once.  FetchPageWrite    *)
(* takes the page's write latch and waits while another thread holds it;   *)
(* the pool is large enough to keep every page of the table resident.      *)
(***************************************************************************)
header_page_id_ == 0

TableStep ==
    UNCHANGED <<bpm_vars, thread_vars, status, op, watch, obs_vars, rep_vars,
                guard_vars, dir_vars, bucket_vars, sched_vars,
                directory_max_depth_, ref, ht_op>>

\* The writes of a step to the table's pages.
WriteTable(t) ==
    /\ header_page' = t.header
    /\ directory_pages' = t.directory_pages
    /\ bucket_pages' = t.bucket_pages
    /\ table_next_page_id' = t.next_page_id

At(t, at) == status = "run" /\ table_pc[t] = at

Goto(t, at, l) ==
    /\ table_pc' = [table_pc EXCEPT ![t] = at]
    /\ table_loc' = [table_loc EXCEPT ![t] = l]

\* FetchPageWrite: WLatch of the page's rwlatch_
Latch(latches, page_id, t) == [latches EXCEPT ![page_id] = t]

\* Mutant of Unlatch: the guard keeps the latch.
Unlatch_Keep(latches, page_id) == latches

\* WritePageGuard::Drop and ~WritePageGuard: WUnlatch
Unlatch(latches, page_id) == [latches EXCEPT ![page_id] = 0]

\* Insert / Remove are called: lines 571-573 and 655-657 pass.
Table_Call(t) ==
    /\ At(t, "idle")
    /\ table_calls[t] > 0
    /\ table_calls' = [table_calls EXCEPT ![t] = @ - 1]
    /\ \E name \in {"Insert", "Remove"}, key \in Keys :
           Goto(t, "header_wait", [NoTableCall EXCEPT !.name = name, !.key = key, !.value = t])
    /\ UNCHANGED <<page_latch, header_page, directory_pages, bucket_pages, table_next_page_id>>
    /\ TableStep

\* bpm_->FetchPageWrite(header_page_id_), lines 576 and 660
FetchHeader(t) ==
    /\ At(t, "header_wait")
    /\ page_latch[header_page_id_] = 0
    /\ page_latch' = Latch(page_latch, header_page_id_, t)
    /\ Goto(t, "header", table_loc[t])
    /\ UNCHANGED <<table_calls, header_page, directory_pages, bucket_pages, table_next_page_id>>
    /\ TableStep

\* Insert, lines 577-587
Insert_Header(t) ==
    /\ At(t, "header") /\ table_loc[t].name = "Insert"
    /\ FindOrCreateDirectory(Table, table_loc[t].key).next_page_id <= MaxTablePages
    /\ WriteTable(FindOrCreateDirectory(Table, table_loc[t].key))
    /\ page_latch' = Unlatch(page_latch, header_page_id_)
    /\ Goto(t, "directory_wait",
            [table_loc[t] EXCEPT !.directory_page_id =
                DirectoryOf(FindOrCreateDirectory(Table, table_loc[t].key), table_loc[t].key)])
    /\ UNCHANGED table_calls
    /\ TableStep

\* Remove, lines 661-669
Remove_Header(t) ==
    /\ At(t, "header") /\ table_loc[t].name = "Remove"
    /\ page_latch' = Unlatch(page_latch, header_page_id_)
    /\ IF DirectoryOf(Table, table_loc[t].key) = INVALID_PAGE_ID
       THEN Goto(t, "idle", [table_loc[t] EXCEPT !.ret = FALSE])
       ELSE Goto(t, "directory_wait",
                 [table_loc[t] EXCEPT !.directory_page_id = DirectoryOf(Table, table_loc[t].key)])
    /\ UNCHANGED <<table_calls, header_page, directory_pages, bucket_pages, table_next_page_id>>
    /\ TableStep

\* bpm_->FetchPageWrite(directory_page_id), lines 588 and 670
FetchDirectory(t) ==
    /\ At(t, "directory_wait")
    /\ page_latch[table_loc[t].directory_page_id] = 0
    /\ page_latch' = Latch(page_latch, table_loc[t].directory_page_id, t)
    /\ Goto(t, "directory", table_loc[t])
    /\ UNCHANGED <<table_calls, header_page, directory_pages, bucket_pages, table_next_page_id>>
    /\ TableStep

\* Insert, lines 589-599
Insert_Directory(t) ==
    /\ At(t, "directory") /\ table_loc[t].name = "Insert"
    /\ LET l == table_loc[t]
           made == FindOrCreateBucket(Table, l.directory_page_id, l.key)
           bucket_idx == HashToBucketIndex(directory_pages[l.directory_page_id], Hash(l.key))
       IN  /\ made.next_page_id <= MaxTablePages
           /\ WriteTable(made)
           /\ Goto(t, "bucket_wait",
                   [l EXCEPT !.bucket_idx = bucket_idx,
                             !.bucket_page_id =
                                 GetBucketPageId(made.directory_pages[l.directory_page_id],
                                                 bucket_idx)])
    /\ UNCHANGED <<table_calls, page_latch>>
    /\ TableStep

\* Remove, lines 671-678
Remove_Directory(t) ==
    /\ At(t, "directory") /\ table_loc[t].name = "Remove"
    /\ LET l == table_loc[t]
           bucket_idx == HashToBucketIndex(directory_pages[l.directory_page_id], Hash(l.key))
           bucket_page_id == GetBucketPageId(directory_pages[l.directory_page_id], bucket_idx)
       IN  IF bucket_page_id = INVALID_PAGE_ID
           THEN /\ page_latch' = Unlatch(page_latch, l.directory_page_id)
                /\ Goto(t, "idle", [l EXCEPT !.ret = FALSE])
           ELSE /\ UNCHANGED page_latch
                /\ Goto(t, "bucket_wait",
                        [l EXCEPT !.bucket_idx = bucket_idx, !.bucket_page_id = bucket_page_id])
    /\ UNCHANGED <<table_calls, header_page, directory_pages, bucket_pages, table_next_page_id>>
    /\ TableStep

\* bpm_->FetchPageWrite(bucket_page_id), lines 600 and 679; Insert drops
\* its directory guard right after (line 602).
FetchBucket(t) ==
    /\ At(t, "bucket_wait")
    /\ page_latch[table_loc[t].bucket_page_id] = 0
    /\ page_latch' =
           IF table_loc[t].name = "Insert"
           THEN Unlatch(Latch(page_latch, table_loc[t].bucket_page_id, t),
                        table_loc[t].directory_page_id)
           ELSE Latch(page_latch, table_loc[t].bucket_page_id, t)
    /\ Goto(t, "bucket", table_loc[t])
    /\ UNCHANGED <<table_calls, header_page, directory_pages, bucket_pages, table_next_page_id>>
    /\ TableStep

\* Insert, lines 604-629: the key is there, or the bucket has room, or the
\* directory cannot grow (return); or the bucket is split and Insert calls
\* itself (line 626) with every guard dropped.
Insert_Bucket(t) ==
    /\ At(t, "bucket") /\ table_loc[t].name = "Insert"
    /\ LET l == table_loc[t]
       IN  IF ~SplitsBucket(Table, l)
           THEN /\ WriteTable(InsertInBucket(Table, l).t)
                /\ Goto(t, "idle", [l EXCEPT !.ret = InsertInBucket(Table, l).ret])
           ELSE IF CannotGrow(Table, l)
           THEN /\ UNCHANGED <<header_page, directory_pages, bucket_pages, table_next_page_id>>
                /\ Goto(t, "idle", [l EXCEPT !.ret = FALSE])
           ELSE /\ GrowAndSplit(Table, l).next_page_id <= MaxTablePages
                /\ WriteTable(GrowAndSplit(Table, l))
                /\ Goto(t, "header_wait", [l EXCEPT !.round = @ + 1])
    /\ page_latch' = Unlatch(page_latch, table_loc[t].bucket_page_id)
    /\ UNCHANGED table_calls
    /\ TableStep

\* A page another thread has pinned stays in the pool: DeletePage returns
\* false for it (buffer_pool_manager.cpp, line 286).
KeepPinned(t, pages) ==
    LET pinned == {p \in DOMAIN bucket_pages : page_latch[p] \notin {0, t}}
    IN  [p \in DOMAIN pages \cup pinned |-> IF p \in DOMAIN pages THEN pages[p] ELSE bucket_pages[p]]

\* Remove, lines 680-693
Remove_Bucket(t) ==
    /\ At(t, "bucket") /\ table_loc[t].name = "Remove"
    /\ LET l == table_loc[t]
           removed == RemoveFromBucket(Table, l)
       IN  /\ WriteTable([removed.t EXCEPT !.bucket_pages = KeepPinned(t, @)])
           /\ Goto(t, "idle", [l EXCEPT !.ret = removed.ret])
    /\ page_latch' = Unlatch(Unlatch(page_latch, table_loc[t].bucket_page_id),
                             table_loc[t].directory_page_id)
    /\ UNCHANGED table_calls
    /\ TableStep

\* The table of MaxDirectoryDepth levels as constructed, after Insert(0, 1),
\* and after Insert(0, 1), Insert(1, 1): one full bucket.
Prefilled ==
    {NewTable(MaxDirectoryDepth),
     HashTable_Insert(NewTable(MaxDirectoryDepth), 0, 1).t,
     HashTable_Insert(HashTable_Insert(NewTable(MaxDirectoryDepth), 0, 1).t, 1, 1).t}

InitTableConc ==
    /\ InitPool(MaxK)
    /\ NoReplacerCalls
    /\ NoGuards
    /\ NoDirectoryCalls
    /\ NoBucketCalls
    /\ InitScheduler
    /\ InitThreads(0)
    /\ status = "run"
    /\ watch = "none"
    /\ op = Call("None", INVALID_PAGE_ID, FALSE)
    /\ owed = [p \in PageIds |-> DataVals]
    /\ undeclared = [p \in PageIds |-> FALSE]
    /\ \E t \in Prefilled :
           /\ header_page = t.header
           /\ directory_pages = t.directory_pages
           /\ bucket_pages = t.bucket_pages
           /\ table_next_page_id = t.next_page_id
           /\ directory_max_depth_ = t.directory_max_depth_
    /\ ref = [key \in Keys |-> {}]
    /\ ht_op = TableCall("None", 0, FALSE)
    /\ InitTableThreads(MaxCalls)

NextTableConc ==
    \E t \in Threads :
        \/ Table_Call(t)
        \/ FetchHeader(t)
        \/ Insert_Header(t)
        \/ Remove_Header(t)
        \/ FetchDirectory(t)
        \/ Insert_Directory(t)
        \/ Remove_Directory(t)
        \/ FetchBucket(t)
        \/ Insert_Bucket(t)
        \/ Remove_Bucket(t)

SpecTableConc == InitTableConc /\ [][NextTableConc]_vars

\* The thread whose step this is.
Acts(t) == table_pc'[t] # table_pc[t]

C23_Step ==
    /\ \A t \in Threads :
           (/\ Acts(t) /\ table_pc[t] = "bucket" /\ table_loc[t].name = "Insert"
            /\ SplitsBucket(Table, table_loc[t]))
           => page_latch[table_loc[t].directory_page_id] = t
    /\ \A d \in DOMAIN directory_pages :
           directory_pages'[d] # directory_pages[d]
           => \E t \in Threads : Acts(t) /\ page_latch[d] = t

\* C23: during Insert the reads of the local and global depth for the split
\* decision and every change of a directory page (IncrGlobalDepth,
\* IncrLocalDepth, the slots SplitBucket updates) are made by a thread that
\* holds the write latch of that directory page.
C23_SplitUnderDirectoryLatch == [][C23_Step]_vars

Held(t) == {p \in DOMAIN page_latch : page_latch[p] = t}

\* header: 0, directory: 1, bucket: 2
Level(p) == IF p = header_page_id_ THEN 0 ELSE IF p \in DOMAIN directory_pages THEN 1 ELSE 2

Waiting(t) == table_pc[t] \in {"header_wait", "directory_wait", "bucket_wait"}

WaitsFor(t) ==
    IF table_pc[t] = "header_wait" THEN header_page_id_
    ELSE IF table_pc[t] = "directory_wait" THEN table_loc[t].directory_page_id
    ELSE table_loc[t].bucket_page_id

Blocked(t) == Waiting(t) /\ page_latch[WaitsFor(t)] # 0

\* C27: a thread in Insert or Remove that waits for a page latch holds only
\* latches of the levels above that page (none when it waits for the header
\* or a directory: the header latch is released first), and the threads in
\* a call are never all waiting for a latch.
C27_LatchOrder ==
    /\ \A t \in Threads :
           Waiting(t) =>
               /\ \A p \in Held(t) : Level(p) < Level(WaitsFor(t))
               /\ table_pc[t] \in {"header_wait", "directory_wait"} => Held(t) = {}
    /\ (\E t \in Threads : table_pc[t] # "idle")
           => \E t \in Threads : table_pc[t] # "idle" /\ ~Blocked(t)

\* A Remove holds its directory and waits for the bucket an Insert has
\* latched.
C27_Witness ==
    \E t, u \in Threads :
        /\ table_pc[t] = "bucket" /\ table_loc[t].name = "Insert"
        /\ table_pc[u] = "bucket_wait" /\ table_loc[u].name = "Remove"
        /\ table_loc[u].bucket_page_id = table_loc[t].bucket_page_id
        /\ Held(u) = {table_loc[u].directory_page_id}
        /\ Blocked(u)

(***************************************************************************)
(* The hash table's calls with their page guards.  One thread calls        *)
(* Insert, Remove and GetValue; each call takes its guards in a guard      *)
(* world whose guard objects are the call's local variables.  reads holds, *)
(* for each round in which Insert goes on to use its directory pointer     *)
(* after line 602, the pin count the directory page has then.              *)
(***************************************************************************)
TableGuards == {"header_guard", "directory_guard", "bucket_guard", "new_page_guard"}

TablePageIds == 0 .. MaxTablePages

\* BufferPoolManager::NewPageGuarded: the new page is pinned once.
NewPageGuarded(w, g, page) == FetchPageBasic(w, g, page)

\* The block that makes page (lines 581-585, 593-598) and ends, and with it
\* the basic guard of the new page; nothing if no page was made.
NewPageBlock(w, page) ==
    IF page = INVALID_PAGE_ID THEN w
    ELSE GuardDestroy(NewPageGuarded(w, "new_page_guard", page), "new_page_guard")

\* The page a step made, if it made one.
MadePage(before, after) ==
    IF after.next_page_id # before.next_page_id THEN before.next_page_id ELSE INVALID_PAGE_ID

\* Mutant of ReturnFrom: the destructor of bucket_guard does not run.
ReturnFrom_KeepBucket(w) ==
    GuardDestroy(GuardDestroy(w, "directory_guard"), "header_guard")

\* return: the destructors of the call's guards run, last constructed first.
ReturnFrom(w) ==
    GuardDestroy(GuardDestroy(GuardDestroy(w, "bucket_guard"), "directory_guard"),
                 "header_guard")

\* Insert, lines 621-625: SplitBucket makes the new bucket page, then
\* directory_guard.Drop() and bucket_guard.Drop().
SplitGuards(w, t, l) ==
    GuardDrop(GuardDrop(NewPageBlock(w, MadePage(t, GrowAndSplit(t, l))), "directory_guard"),
              "bucket_guard")

RECURSIVE Insert_Guarded(_, _, _, _)

\* Insert, lines 604-629, in world w: the bucket is latched and the
\* directory guard dropped.
Insert_AtBucket(w, t, l) ==
    IF ~SplitsBucket(t, l)
    THEN InsertInBucket(t, l) @@ [w |-> ReturnFrom(w), reads |-> <<>>]
    ELSE IF CannotGrow(t, l)
    THEN [w |-> ReturnFrom(w), t |-> t, ret |-> FALSE,
          reads |-> <<w.pins[l.directory_page_id]>>]
    ELSE [Insert_Guarded(SplitGuards(w, t, l), GrowAndSplit(t, l), l.key, l.value)
             EXCEPT !.w = ReturnFrom(@),
                    !.reads = <<w.pins[l.directory_page_id]>> \o @]

\* Insert, lines 589-602, in world w: the directory is latched.
Insert_AtDirectory(w, t, directory_page_id, key, value) ==
    LET made == FindOrCreateBucket(t, directory_page_id, key)
        bucket_idx == HashToBucketIndex(t.directory_pages[directory_page_id], Hash(key))
        bucket_page_id == GetBucketPageId(made.directory_pages[directory_page_id], bucket_idx)
    IN  Insert_AtBucket(
            GuardDrop(FetchPageWrite(NewPageBlock(w, MadePage(t, made)),
                                     "bucket_guard", bucket_page_id),
                      "directory_guard"),
            made,
            [NoTableCall EXCEPT !.name = "Insert", !.key = key, !.value = value,
                                !.directory_page_id = directory_page_id,
                                !.bucket_idx = bucket_idx,
                                !.bucket_page_id = bucket_page_id])

\* DiskExtendibleHashTable::Insert in world w.
Insert_Guarded(w, t, key, value) ==
    LET made == FindOrCreateDirectory(t, key)
    IN  Insert_AtDirectory(
            FetchPageWrite(
                GuardDrop(NewPageBlock(FetchPageWrite(w, "header_guard", header_page_id_),
                                       MadePage(t, made)),
                          "header_guard"),
                "directory_guard", DirectoryOf(made, key)),
            made, DirectoryOf(made, key), key, value)

\* Remove, lines 670-693, in world w: the header guard is dropped.
Remove_AtDirectory(w, t, directory_page_id, key) ==
    LET bucket_idx == HashToBucketIndex(t.directory_pages[directory_page_id], Hash(key))
        bucket_page_id == GetBucketPageId(t.directory_pages[directory_page_id], bucket_idx)
        l == [NoTableCall EXCEPT !.name = "Remove", !.key = key,
                                 !.directory_page_id = directory_page_id,
                                 !.bucket_idx = bucket_idx,
                                 !.bucket_page_id = bucket_page_id]
    IN  IF bucket_page_id = INVALID_PAGE_ID
        THEN [w |-> ReturnFrom(w), t |-> t, ret |-> FALSE, reads |-> <<>>]
        ELSE RemoveFromBucket(t, l) @@
             [w |-> ReturnFrom(FetchPageWrite(w, "bucket_guard", bucket_page_id)),
              reads |-> <<>>]

\* DiskExtendibleHashTable::Remove in world w.
Remove_Guarded(w, t, key) ==
    LET w1 == GuardDrop(FetchPageWrite(w, "header_guard", header_page_id_), "header_guard")
    IN  IF DirectoryOf(t, key) = INVALID_PAGE_ID
        THEN [w |-> ReturnFrom(w1), t |-> t, ret |-> FALSE, reads |-> <<>>]
        ELSE Remove_AtDirectory(FetchPageWrite(w1, "directory_guard", DirectoryOf(t, key)),
                                t, DirectoryOf(t, key), key)

\* FindBucketPageID in world w: a read guard on the header, released when
\* the directory's page id is known, then a read guard on the directory,
\* released when the bucket's page id is known.
FindBucketPageID_Guarded(w, t, key) ==
    LET w1 == GuardDestroy(FetchPageRead(w, "header_guard", header_page_id_), "header_guard")
    IN  IF DirectoryOf(t, key) = INVALID_PAGE_ID THEN w1
        ELSE GuardDestroy(FetchPageRead(w1, "directory_guard", DirectoryOf(t, key)),
                          "directory_guard")

\* DiskExtendibleHashTable::GetValue in world w.
GetValue_Guarded(w, t, key) ==
    IF FindBucketPageID(t, key) = INVALID_PAGE_ID
    THEN [w |-> FindBucketPageID_Guarded(w, t, key), t |-> t, ret |-> FALSE, reads |-> <<>>]
    ELSE [w |-> GuardDestroy(FetchPageRead(FindBucketPageID_Guarded(w, t, key),
                                           "bucket_guard", FindBucketPageID(t, key)),
                             "bucket_guard"),
          t |-> t, ret |-> GetValue(t, key) # {}, reads |-> <<>>]

\* A call of the table and the calls its guards made on the pool and the
\* latches.
TableGuardCall(name, key, ret, log, reads) ==
    [name |-> name, key |-> key, ret |-> ret, log |-> log, reads |-> reads]

\* The step of a table call that ends in world res.w with table res.t.  A
\* call that waits for a latch its own thread holds never returns.
TableGuardApply(res, name, key) ==
    \E abort \in (IF res.w.stuck THEN BOOLEAN ELSE {FALSE}) :
        /\ status' = IF abort THEN "abort" ELSE IF res.w.stuck THEN "hang" ELSE "run"
        /\ guards' = IF res.w.stuck THEN guards ELSE res.w.guards
        /\ guard_pins' = res.w.pins
        /\ guard_latch' = res.w.latch
        /\ guard_op' = IF res.w.stuck THEN guard_op
                       ELSE TableGuardCall(name, key, res.ret, res.w.log, res.reads)
        /\ SetTable(IF res.w.stuck THEN Table ELSE res.t)
        /\ ht_op' = IF res.w.stuck THEN ht_op ELSE TableCall(name, key, res.ret)
        /\ UNCHANGED <<bpm_vars, op, watch, obs_vars, thread_vars, ref, rep_vars, more_vars>>

Insert_GuardedOp ==
    /\ status = "run"
    /\ \E key \in Keys, value \in Values :
        /\ HashTable_Insert(Table, key, value).t.next_page_id <= MaxTablePages
        /\ TableGuardApply(Insert_Guarded(GuardWorld, Table, key, value), "Insert", key)

\* A failed assert(bucket_idx < Size()) ends the process in the build that
\* has asserts.
Remove_GuardedOp ==
    /\ status = "run"
    /\ \E key \in Keys :
        IF HashTable_Remove(Table, key).failed
        THEN /\ status' = "abort"
             /\ UNCHANGED <<bpm_vars, op, watch, obs_vars, thread_vars, ht_vars, rep_vars,
                            guard_vars, more_vars>>
        ELSE TableGuardApply(Remove_Guarded(GuardWorld, Table, key), "Remove", key)

GetValue_GuardedOp ==
    /\ status = "run"
    /\ \E key \in Keys :
        TableGuardApply(GetValue_Guarded(GuardWorld, Table, key), "GetValue", key)

\* Other holders may have each page pinned when the calls are made.
InitTableGuards ==
    /\ InitPool(MaxK)
    /\ NoReplacerCalls
    /\ NoMore
    /\ InitThreads(0)
    /\ status = "run"
    /\ watch = "none"
    /\ op = Call("None", INVALID_PAGE_ID, FALSE)
    /\ owed = [p \in PageIds |-> DataVals]
    /\ undeclared = [p \in PageIds |-> FALSE]
    /\ \E directory_max_depth \in 0 .. MaxDirectoryDepth : InitTable(directory_max_depth)
    /\ guards = [g \in TableGuards |-> NoGuard]
    /\ \E pinned \in 0 .. 1 : guard_pins = [p \in TablePageIds |-> pinned]
    /\ guard_latch = [p \in TablePageIds |-> [readers |-> 0, writer |-> FALSE]]
    /\ guard_op = TableGuardCall("None", 0, FALSE, <<>>, <<>>)

NextTableGuards ==
    \/ Insert_GuardedOp
    \/ Remove_GuardedOp
    \/ GetValue_GuardedOp

\* The hash table called by one thread, with the guards of each call.
SpecTableGuards == InitTableGuards /\ [][NextTableGuards]_vars

\* A call of the table returned in this step.
TableReturns == status' = "run" /\ guard_op' # guard_op

C31_Step ==
    TableReturns =>
        /\ guard_pins' = guard_pins
        /\ \A p \in TablePageIds : guard_latch'[p] = [readers |-> 0, writer |-> FALSE]
        /\ \A g \in TableGuards : ~guards'[g].bpm /\ guards'[g].page = nullptr
        /\ \A p \in TablePageIds :
               CallsOn(guard_op'.log, "UnpinPage", p) = CallsOn(guard_op'.log, "FetchPage", p)

\* C31: when Insert, Remove or GetValue returns, on any exit path, every
\* page has the pin count it had before the call, no page is latched, no
\* guard of the call holds a page, and the call unpinned each page as often
\* as it pinned it.
C31_ExitsReleaseAll == [][C31_Step]_vars

\* Insert has returned false from a full table, after it fetched and
\* released the header, the directory and the bucket.
C31_Witness ==
    /\ status = "run"
    /\ guard_op.name = "Insert" /\ ~guard_op.ret /\ guard_op.reads # <<>>
    /\ \A p \in TablePageIds : guard_latch[p] = [readers |-> 0, writer |-> FALSE]
    /\ \E d \in DOMAIN directory_pages, b \in DOMAIN bucket_pages :
        /\ CallsOn(guard_op.log, "UnpinPage", header_page_id_) = 1
        /\ CallsOn(guard_op.log, "UnpinPage", d) = 1
        /\ CallsOn(guard_op.log, "UnpinPage", b) = 1
        /\ CallsOn(guard_op.log, "WUnlatch", b) = 1

C32_Step ==
    (TableReturns /\ guard_op'.name = "Insert") =>
        \A i \in 1 .. Len(guard_op'.reads) : guard_op'.reads[i] >= 1

\* C32: whenever Insert uses its directory pointer after it has dropped the
\* directory guard (the depth checks, IncrGlobalDepth, IncrLocalDepth,
\* SplitBucket), the directory page's pin count is at least 1.
C32_DirectoryPinnedInSplit == [][C32_Step]_vars

====
